---- MODULE Spec2Model ----
(***************************************************************************)
(* Household inventory tracker (src/app.js): the item list, the category   *)
(* list, the house -> room -> storage tree, the single-slot undo record    *)
(* and the persisted copy, with one action per event handler; the filters, *)
(* the sort and the search text of the inventory view, the list of cards   *)
(* they give, the export and import of a backup document, the filter       *)
(* selects of the page, a storage that can refuse a write, and the         *)
(* scanner session.                                                        *)
(*                                                                         *)
(* Strings are modelled by the strings themselves; the order used by       *)
(* Array.prototype.sort() (UTF-16 code units) is given by StrOrder.        *)
(* Names typed by the user are drawn from small sets of plain words (no    *)
(* quotes or markup characters).                                           *)
(***************************************************************************)
EXTENDS Integers, Sequences, FiniteSets, TLC

VARIABLES
    items,              \* AppState.items
    categories,         \* AppState.categories
    locationStructure,  \* AppState.locationStructure
    lastAction,         \* AppState.lastAction
    inventory_data,     \* localStorage['inventory_data']
    now,                \* the reading of the wall clock (Date.now())
    filters,            \* AppState.filters
    sortBy,             \* AppState.sortBy
    searchInput,        \* the text of the search field (searchInput.value)
    filterInputs,       \* the house, room, storage and category selects of the filter panel
    storageFull,        \* whether localStorage.setItem throws (the quota is used up)
    download,           \* the backup file exportData() wrote last (and, as history,
                        \* the records it was written from)
    scanner,            \* AppState.isScanning, AppState.scannerTarget and the camera session
    lastOp              \* history: the handler that ran last and how it ended

vars == <<items, categories, locationStructure, lastAction, inventory_data, now,
          filters, sortBy, searchInput, filterInputs, storageFull, download, scanner,
          lastOp>>

----------------------------------------------------------------------------
(* Bounds of the model *)

MaxItems == 2
MaxQty == 1
MaxClock == 2
MaxRooms == 2
MaxLocRooms == 1
MaxStorages == 2
MaxCats == 6

----------------------------------------------------------------------------
(* Strings and their order *)

\* Every string of the model, in the order of the default sort().
StrOrder ==
    << "A", "B", "Facial", "Food", "General", "K", "L", "Medicine", "P", "Q",
       "Snack", "Stationery", "Uncategorized" >>

Rank(s) == CHOOSE i \in 1..Len(StrOrder) : StrOrder[i] = s

StrLt(a, b) == Rank(a) < Rank(b)

RECURSIVE InsertSorted(_, _)
InsertSorted(x, s) ==
    IF s = <<>> THEN <<x>>
    ELSE IF StrLt(x, Head(s)) THEN <<x>> \o s
    ELSE <<Head(s)>> \o InsertSorted(x, Tail(s))

\* arr.sort() on an array of strings.
RECURSIVE sort(_)
sort(s) == IF s = <<>> THEN <<>> ELSE InsertSorted(s[Len(s)], sort(SubSeq(s, 1, Len(s) - 1)))

Elems(s) == {s[i] : i \in 1..Len(s)}

\* arr.indexOf(x), 0-based, -1 when absent.
indexOf(s, x) ==
    IF x \in Elems(s) THEN (CHOOSE i \in 1..Len(s) : s[i] = x /\ \A j \in 1..(i - 1) : s[j] # x) - 1
    ELSE -1

\* arr.splice(idx, 1)
spliceOut(s, idx) == SubSeq(s, 1, idx) \o SubSeq(s, idx + 2, Len(s))

\* arr.splice(idx, 0, x): an index past the end inserts at the end.
spliceIn(s, idx, x) ==
    LET k == IF idx > Len(s) THEN Len(s) ELSE idx
    IN  SubSeq(s, 1, k) \o <<x>> \o SubSeq(s, k + 1, Len(s))

\* Number.prototype.toString() of the clock readings of the model.
toString(n) == << "1", "2", "3", "4", "5", "6", "7", "8", "9" >>[n]

----------------------------------------------------------------------------
(* Objects used as maps *)

EmptyObject == [k \in {} |-> <<>>]

\* obj[k] = v
put(obj, k, v) == [x \in (DOMAIN obj) \cup {k} |-> IF x = k THEN v ELSE obj[x]]

\* delete obj[k]
del(obj, k) == [x \in (DOMAIN obj) \ {k} |-> obj[x]]

----------------------------------------------------------------------------
(* Values *)

Null == [type |-> "null"]
NoData == [empty |-> TRUE]

\* No backup file was written yet.
NoFile == [text |-> "none"]

\* The scanner as declared: no session, no target; the camera is off and no
\* decode callback ran.
NoScanner ==
    [isScanning |-> FALSE, scannerTarget |-> "null", camera |-> "off", handled |-> 0]

Snapshot(its, cats, struct) ==
    [items |-> its, categories |-> cats, locationStructure |-> struct]

\* The application state a handler reads and writes, as one record.
AppState ==
    [items |-> items, categories |-> categories, locationStructure |-> locationStructure,
     lastAction |-> lastAction, inventory_data |-> inventory_data,
     filterInputs |-> filterInputs, storageFull |-> storageFull]

\* The three records of a state.
Core(st) == Snapshot(st.items, st.categories, st.locationStructure)

EmptyLoc == [house |-> "", room |-> "", storage |-> ""]

\* AppState.filters as declared, and as the clear button leaves it.
NoFilters ==
    [house |-> "", room |-> "", storage |-> "", category |-> "",
     showZero |-> FALSE, expired |-> FALSE, soon |-> FALSE]

\* items.find(i => i.id === id) as an index, 0 when there is none.
find(its, id) ==
    IF \E k \in 1..Len(its) : its[k].id = id
    THEN CHOOSE k \in 1..Len(its) : its[k].id = id /\ \A j \in 1..(k - 1) : its[j].id # id
    ELSE 0

\* parseInt(text) || dflt for a field holding an integer.
parseIntOr(n, dflt) == IF n = 0 THEN dflt ELSE n

\* A trim that leaves the text as it is.
trimNothing(s) == s

\* String.prototype.trim() on the field texts of the model.
trim(s) == IF s = " " THEN "" ELSE IF s = " Milk " THEN "Milk" ELSE s

----------------------------------------------------------------------------
(* Persistence and drawing *)

\* A save that answers a refused write by going back to the stored record.
StorageSaveOrRestore(st) ==
    IF st.storageFull
    THEN IF st.inventory_data = NoData THEN st
         ELSE [st EXCEPT !.items = st.inventory_data.items,
                         !.categories = st.inventory_data.categories,
                         !.locationStructure = st.inventory_data.locationStructure]
    ELSE [st EXCEPT !.inventory_data = Core(st)]

\* Storage.save(): the three records as they are at the call. When the storage
\* is full, localStorage.setItem throws and nothing is written.
StorageSave(st) == IF st.storageFull THEN st ELSE [st EXCEPT !.inventory_data = Core(st)]

\* The statements of a handler that follow its Storage.save(): the exception
\* of a refused write ends the handler before them, st being the state at
\* the save and rest the state after the statements.
afterSave(st, rest) == IF st.storageFull THEN st ELSE rest

\* renderLocationTree(): drawing the tree sorts every storage list in place.
renderLocationTree(struct) ==
    [h \in DOMAIN struct |-> [r \in DOMAIN struct[h] |-> sort(struct[h][r])]]

render(st) == [st EXCEPT !.locationStructure = renderLocationTree(@)]

\* The filter selects of a page just loaded: every select shows its empty option.
NoSelects ==
    [house |-> "", houses |-> {}, room |-> "", rooms |-> {},
     storage |-> "", storages |-> {}, category |-> "", categories |-> {}]

\* select.value = v: a value the select has no option for leaves it showing "".
setValue(options, v) == IF v \in options THEN v ELSE ""

\* populateFilterDropdowns(level): the selects afterwards. A select filled
\* again shows its empty option; the house select gets its value back.
populateFilterDropdowns(fi, struct, cats, level) ==
    LET f1 == IF level \in {"init", "house"}
              THEN [fi EXCEPT !.houses = DOMAIN struct,
                              !.house = setValue(DOMAIN struct, fi.house)]
              ELSE fi
        f2 == IF level = "init"
              THEN [f1 EXCEPT !.categories = Elems(cats), !.category = ""]
              ELSE f1
        h == f2.house
        f3 == IF level = "init" \/ (level = "room" /\ h # "")
              THEN [f2 EXCEPT !.rooms = IF h # "" /\ h \in DOMAIN struct
                                        THEN DOMAIN struct[h] ELSE {},
                              !.room = ""]
              ELSE f2
        r == f3.room
    IN  IF level = "init" \/ (level = "storage" /\ h # "" /\ r # "")
        THEN [f3 EXCEPT !.storages = IF h # "" /\ r # "" /\ h \in DOMAIN struct
                                         /\ r \in DOMAIN struct[h]
                                      THEN Elems(struct[h][r]) ELSE {},
                        !.storage = ""]
        ELSE f3

\* populateFilterDropdowns('storage') sorts the list it reads in place.
populatedStructure(fi, struct, level) ==
    IF /\ level = "storage" /\ fi.house # "" /\ fi.room # ""
       /\ fi.house \in DOMAIN struct /\ fi.room \in DOMAIN struct[fi.house]
    THEN [struct EXCEPT ![fi.house][fi.room] = sort(@)]
    ELSE struct

\* A handler calls populateFilterDropdowns(level).
populate(st, level) ==
    [st EXCEPT !.filterInputs =
                    populateFilterDropdowns(@, st.locationStructure, st.categories, level),
               !.locationStructure = populatedStructure(st.filterInputs, @, level)]

----------------------------------------------------------------------------
(* Location tree *)

AllRooms(struct) == UNION {{<<h, r>> : r \in DOMAIN struct[h]} : h \in DOMAIN struct}

AllStorages(struct) ==
    UNION {{<<hr[1], hr[2], i>> : i \in 1..Len(struct[hr[1]][hr[2]])} : hr \in AllRooms(struct)}

\* The nodes of the drawn tree: the rename and delete buttons that can be clicked.
TreeNodes(struct) ==
    {[type |-> "house", name |-> h, house |-> "", room |-> ""] : h \in DOMAIN struct}
    \cup {[type |-> "room", name |-> hr[2], house |-> hr[1], room |-> ""] :
            hr \in AllRooms(struct)}
    \cup {[type |-> "storage", name |-> struct[t[1]][t[2]][t[3]], house |-> t[1], room |-> t[2]] :
            t \in AllStorages(struct)}

\* btnAddRoot.onclick: the state after the prompt returned h.
btnAddRootR(st, h) ==
    IF h # "" /\ h \notin DOMAIN st.locationStructure
    THEN LET new == [st EXCEPT !.locationStructure = put(@, h, EmptyObject)]
         IN  afterSave(new, populate(render(StorageSave(new)), "house"))
    ELSE st

\* form.btnAddHouse.onclick: the state after the prompt returned n.
btnAddHouseR(st, n) ==
    IF n # "" /\ n \notin DOMAIN st.locationStructure
    THEN LET new == [st EXCEPT !.locationStructure = put(@, n, EmptyObject)]
         IN  afterSave(new, render(StorageSave(new)))
    ELSE st

\* btnAddRoom.onclick of the node of `house`: the state after the prompt returned r.
btnAddRoomR(st, house, r) ==
    IF r # "" /\ r \notin DOMAIN st.locationStructure[house]
    THEN LET new == [st EXCEPT !.locationStructure[house] = put(@, r, <<>>)]
         IN  afterSave(new, render(StorageSave(new)))
    ELSE st

\* An add that pushes the name whether the list holds it or not.
btnAddStoragePush(st, house, room, s) ==
    IF s # ""
    THEN LET new == [st EXCEPT !.locationStructure[house][room] = Append(@, s)]
         IN  afterSave(new, render(StorageSave(new)))
    ELSE st

\* btnAddStorage.onclick of the node of `house`/`room`.
btnAddStorageR(st, house, room, s) ==
    IF s # "" /\ s \notin Elems(st.locationStructure[house][room])
    THEN LET new == [st EXCEPT !.locationStructure[house][room] = Append(@, s)]
         IN  afterSave(new, render(StorageSave(new)))
    ELSE st

\* renameLocation: the tree after the rename (before it is drawn again).
renameStruct(struct, type, oldName, pHouse, pRoom, newName) ==
    IF type = "house" THEN del(put(struct, newName, struct[oldName]), oldName)
    ELSE IF type = "room"
    THEN [struct EXCEPT ![pHouse] = del(put(struct[pHouse], newName, struct[pHouse][oldName]),
                                        oldName)]
    ELSE LET arr == struct[pHouse][pRoom]
             idx == indexOf(arr, oldName)
         IN  IF idx # -1
             THEN [struct EXCEPT ![pHouse][pRoom] = [arr EXCEPT ![idx + 1] = newName]]
             ELSE struct

\* A cascade that follows the name of a room or storage into every house.
renameItemsAnyHouse(its, type, oldName, pHouse, pRoom, newName) ==
    [k \in 1..Len(its) |->
        LET l == its[k].location IN
        IF type = "house" /\ l.house = oldName
        THEN [its[k] EXCEPT !.location.house = newName]
        ELSE IF type = "room" /\ l.room = oldName
        THEN [its[k] EXCEPT !.location.room = newName]
        ELSE IF type = "storage" /\ l.room = pRoom /\ l.storage = oldName
        THEN [its[k] EXCEPT !.location.storage = newName]
        ELSE its[k]]

\* renameLocation: the items after the rename.
renameItems(its, type, oldName, pHouse, pRoom, newName) ==
    [k \in 1..Len(its) |->
        LET l == its[k].location IN
        IF type = "house" /\ l.house = oldName
        THEN [its[k] EXCEPT !.location.house = newName]
        ELSE IF type = "room" /\ l.house = pHouse /\ l.room = oldName
        THEN [its[k] EXCEPT !.location.room = newName]
        ELSE IF type = "storage" /\ l.house = pHouse /\ l.room = pRoom /\ l.storage = oldName
        THEN [its[k] EXCEPT !.location.storage = newName]
        ELSE its[k]]

\* window.renameLocation on a node of the tree, the prompt returning newName.
renameLocationR(st, node, newName) ==
    IF newName = "" \/ newName = node.name THEN st
    ELSE LET new ==
                [st EXCEPT !.locationStructure =
                            renameStruct(@, node.type, node.name, node.house, node.room, newName),
                           !.items =
                            renameItems(@, node.type, node.name, node.house, node.room, newName)]
         IN  afterSave(new, populate(render(StorageSave(new)), "init"))

\* A dependents test that does not look at the storage.
hasItemsAnyStorage(its, h, r, s) ==
    \E k \in 1..Len(its) :
        LET l == its[k].location IN
        /\ l.house = h
        /\ (r # "" => l.room = r)

\* A dependents test that passes over the items of quantity 0.
hasItemsInStock(its, h, r, s) ==
    \E k \in 1..Len(its) :
        LET l == its[k].location IN
        /\ its[k].quantity > 0
        /\ l.house = h
        /\ (r # "" => l.room = r)
        /\ (s # "" => l.storage = s)

\* hasItems(h, r, s) of deleteLocation; an argument left out is "".
hasItems(its, h, r, s) ==
    \E k \in 1..Len(its) :
        LET l == its[k].location IN
        /\ l.house = h
        /\ (r # "" => l.room = r)
        /\ (s # "" => l.storage = s)

\* A constraint check for houses only.
blockedHouseOnly(its, node) == node.type = "house" /\ hasItems(its, node.name, "", "")

\* The constraint check of deleteLocation.
blocked(its, node) ==
    IF node.type = "house" THEN hasItems(its, node.name, "", "")
    ELSE IF node.type = "room" THEN hasItems(its, node.house, node.name, "")
    ELSE hasItems(its, node.house, node.room, node.name)

\* deleteLocation: the tree with the node removed.
deleteStruct(struct, node) ==
    IF node.type = "house" THEN del(struct, node.name)
    ELSE IF node.type = "room"
    THEN [struct EXCEPT ![node.house] = del(struct[node.house], node.name)]
    ELSE [struct EXCEPT ![node.house][node.room] =
            spliceOut(struct[node.house][node.room],
                      indexOf(struct[node.house][node.room], node.name))]

\* A record that keeps the name of a deleted house or room but not its subtree.
deleteActionShallow(struct, node) ==
    [type |-> IF node.type = "house" THEN "restoreHouse"
              ELSE IF node.type = "room" THEN "restoreRoom" ELSE "restoreStorage",
     name |-> node.name,
     data |-> IF node.type = "house" THEN EmptyObject
              ELSE IF node.type = "room" THEN <<>>
              ELSE indexOf(struct[node.house][node.room], node.name),
     house |-> node.house,
     room |-> node.room]

\* deleteLocation: the undo action it records.
deleteAction(struct, node) ==
    [type |-> IF node.type = "house" THEN "restoreHouse"
              ELSE IF node.type = "room" THEN "restoreRoom" ELSE "restoreStorage",
     name |-> node.name,
     data |-> IF node.type = "house" THEN struct[node.name]
              ELSE IF node.type = "room" THEN struct[node.house][node.name]
              ELSE indexOf(struct[node.house][node.room], node.name),
     house |-> node.house,
     room |-> node.room]

\* window.deleteLocation on a node of the tree.
deleteLocationR(st, node) ==
    IF blocked(st.items, node) THEN st
    ELSE LET new == [st EXCEPT !.locationStructure = deleteStruct(@, node)]
         IN  afterSave(new,
                [populate(render(StorageSave(new)), "init")
                    EXCEPT !.lastAction = deleteAction(st.locationStructure, node)])

----------------------------------------------------------------------------
(* Items *)

\* What the house, room and storage selects of a form can hold together: each
\* select lists the children of the selection above it.
FormLocations(struct) ==
    {EmptyLoc}
    \cup {[house |-> h, room |-> "", storage |-> ""] : h \in DOMAIN struct}
    \cup {[house |-> hr[1], room |-> hr[2], storage |-> ""] : hr \in AllRooms(struct)}
    \cup {[house |-> t[1], room |-> t[2], storage |-> struct[t[1]][t[2]][t[3]]] :
            t \in AllStorages(struct)}

\* A merge test that does not look at the location.
existingAnyLocation(its, barcodeVal, nameVal, loc) ==
    LET same(i) == IF barcodeVal # "" THEN i.barcode = barcodeVal ELSE i.name = nameVal
    IN  IF \E k \in 1..Len(its) : same(its[k])
        THEN CHOOSE k \in 1..Len(its) : same(its[k]) /\ \A j \in 1..(k - 1) : ~same(its[j])
        ELSE 0

\* The item the add-item form merges into, as an index (0: none).
existing(its, barcodeVal, nameVal, loc) ==
    LET same(i) == /\ (IF barcodeVal # "" THEN i.barcode = barcodeVal ELSE i.name = nameVal)
                   /\ i.location.house = loc.house
                   /\ i.location.room = loc.room
                   /\ i.location.storage = loc.storage
    IN  IF \E k \in 1..Len(its) : same(its[k])
        THEN CHOOSE k \in 1..Len(its) : same(its[k]) /\ \A j \in 1..(k - 1) : ~same(its[j])
        ELSE 0

\* The date fields of a form left untouched: the opened box, the two fields
\* under it and the expiry field.
Unchecked == [checked |-> FALSE, date |-> "", life |-> "", expiry |-> ""]

\* What the opened box, its fields and the expiry field show when the edit
\* form opens on item.
shownOpened(item) ==
    [checked |-> item.isOpened,
     date |-> IF item.openedDate = "null" THEN "" ELSE item.openedDate,
     life |-> IF item.shelfLife = "null" THEN "" ELSE item.shelfLife,
     expiry |-> item.expiry]

\* The record the add-item form builds; `opened` is the date fields of the
\* form: the opened box, the two fields under it and the expiry field.
newItem(barcodeVal, nameVal, catVal, qty, loc, clock, opened) ==
    [id |-> toString(clock),
     barcode |-> barcodeVal,
     name |-> nameVal,
     category |-> catVal,
     quantity |-> qty,
     isOpened |-> opened.checked,
     openedDate |-> IF opened.checked THEN opened.date ELSE "null",
     shelfLife |-> IF opened.checked THEN opened.life ELSE "null",
     expiry |-> opened.expiry,
     location |-> loc,
     createdAt |-> clock]

\* The quantity the add-item form reads from its quantity field.
addQty(quantity) == parseIntOr(quantity, 1)

\* The quantity the edit form reads from its quantity field.
editQty(quantity) == parseIntOr(quantity, 0)

\* The submit handler of add-item-form, the clock reading `clock`.
addItemSubmitR(st, name, barcode, category, quantity, loc, clock, opened) ==
    LET nameVal == trim(name)
        barcodeVal == trim(barcode)
        catVal == IF category = "" THEN "Uncategorized" ELSE category
        qty == addQty(quantity)
        e == existing(st.items, barcodeVal, nameVal, loc)
    IN  IF nameVal = "" THEN st
        ELSE IF e # 0
        THEN StorageSave([st EXCEPT !.items[e].quantity = @ + qty])
        ELSE StorageSave([st EXCEPT !.items =
                Append(@, newItem(barcodeVal, nameVal, catVal, qty, loc, clock, opened))])

\* What the category select of the edit form shows when the form opens.
editCategoryDefault(cats, item) == IF item.category \in Elems(cats) THEN item.category ELSE ""

\* A save that writes the two fields under the opened box whatever the box says.
editedItemStale(item, category, quantity, loc, opened) ==
    [item EXCEPT !.category = category,
                 !.quantity = editQty(quantity),
                 !.isOpened = opened.checked,
                 !.expiry = opened.expiry,
                 !.openedDate = opened.date,
                 !.shelfLife = opened.life,
                 !.location = loc]

\* The item after the edit form is saved (name as shown).
editedItem(item, category, quantity, loc, opened) ==
    [item EXCEPT !.category = category,
                 !.quantity = editQty(quantity),
                 !.expiry = opened.expiry,
                 !.isOpened = opened.checked,
                 !.openedDate = IF opened.checked THEN opened.date ELSE "null",
                 !.shelfLife = IF opened.checked THEN opened.life ELSE "null",
                 !.location = loc]

\* form.onsubmit of the item details modal holding the id `id`.
editItemSubmitR(st, id, category, quantity, loc, opened) ==
    LET k == find(st.items, id)
    IN  IF k = 0 THEN st
        ELSE StorageSave([st EXCEPT !.items[k] = editedItem(@, category, quantity, loc, opened)])

\* A delete that does not save.
btnDeleteUnsaved(st, id) ==
    LET keep(i) == i.id # id
    IN  [st EXCEPT !.items = SelectSeq(@, keep)]

\* btnDelete.onclick of the item details modal holding the id `id`, confirmed.
btnDeleteR(st, id) ==
    LET keep(i) == i.id # id
    IN  StorageSave([st EXCEPT !.items = SelectSeq(@, keep)])

\* A test that lets the quantity reach -1.
refusedBelowMinusOne(oldQty, delta) == oldQty + delta < -1

\* updateQuantity: "if (newQty < 0) return".
refused(oldQty, delta) == oldQty + delta < 0

\* window.updateQuantity(id, delta)
updateQuantityR(st, id, delta) ==
    LET k == find(st.items, id)
    IN  IF k = 0 THEN st
        ELSE LET oldQty == st.items[k].quantity
                 newQty == oldQty + delta
             IN  IF refused(oldQty, delta) THEN st
                 ELSE StorageSave([st EXCEPT
                        !.items[k].quantity = newQty,
                        !.lastAction = [type |-> "updateQty", id |-> id, oldVal |-> oldQty,
                                        newVal |-> newQty]])

----------------------------------------------------------------------------
(* Categories *)

\* The categories in use that syncCategories looks for in the list.
usedCategories(its) ==
    {its[k].category : k \in 1..Len(its)} \ {"", "Uncategorized"}

RECURSIVE pushAll(_, _)
pushAll(cats, S) ==
    IF S = {} THEN cats
    ELSE LET c == CHOOSE x \in S : TRUE IN pushAll(Append(cats, c), S \ {c})

\* syncCategories()
syncCategories(st) ==
    IF usedCategories(st.items) \subseteq Elems(st.categories) THEN st
    ELSE StorageSave([st EXCEPT !.categories =
            sort(pushAll(@, usedCategories(st.items) \ Elems(@)))])

\* The click on the settings entry of the navigation bar.
navSettingsR(st) == syncCategories(st)

\* form.btnAddCat.onclick: the prompt's answer is pushed as it is.
btnAddCatR(st, n) ==
    IF n # "" THEN StorageSave([st EXCEPT !.categories = Append(@, n)]) ELSE st

\* btn-settings-add-cat.onclick
btnSettingsAddCatR(st, n) ==
    IF n # "" /\ n \notin Elems(st.categories)
    THEN LET new == [st EXCEPT !.categories = sort(Append(@, n))]
         IN  afterSave(new, populate(StorageSave(new), "init"))
    ELSE st

\* The ids of the items of category cat, in list order.
affectedIds(its, cat) ==
    LET has(i) == i.category = cat
        sel == SelectSeq(its, has)
    IN  [k \in 1..Len(sel) |-> sel[k].id]

\* affectedIds.forEach(id => { item = items.find(id); if (item) item.category = c })
setCategory(its, ids, c) ==
    [k \in 1..Len(its) |->
        IF \E j \in 1..Len(ids) : find(its, ids[j]) = k
        THEN [its[k] EXCEPT !.category = c]
        ELSE its[k]]

\* edit-cat-btn.onclick on the row of cat: the list after the rename.
renamedCategories(cats, cat, newName) ==
    LET idx == indexOf(cats, cat)
    IN  sort(IF idx # -1 THEN [cats EXCEPT ![idx + 1] = newName] ELSE cats)

\* edit-cat-btn.onclick on the row of cat, the prompt returning newName.
editCatBtnR(st, cat, newName) ==
    IF newName = "" \/ newName = cat THEN st
    ELSE LET ids == affectedIds(st.items, cat)
             new == [st EXCEPT
                !.categories = renamedCategories(@, cat, newName),
                !.items = setCategory(@, ids, newName),
                !.lastAction = [type |-> "catRename", oldVal |-> cat, newVal |-> newName,
                                ids |-> ids]]
         IN  afterSave(new, populate(StorageSave(new), "init"))

\* del-cat-btn.onclick on the row of cat: the list afterwards.
deletedCategories(cats, cat) ==
    LET keep(c) == c # cat IN SelectSeq(cats, keep)

\* del-cat-btn.onclick on the row of cat.
delCatBtnR(st, cat) ==
    LET ids == affectedIds(st.items, cat)
        new == [st EXCEPT
            !.categories = deletedCategories(@, cat),
            !.items = setCategory(@, ids, "Uncategorized"),
            !.lastAction = [type |-> "catDelete", name |-> cat, ids |-> ids]]
    IN  afterSave(new, populate(StorageSave(new), "init"))

----------------------------------------------------------------------------
(* Undo *)

\* A restore that writes the new value of the record instead of the old one.
undoItemsNewVal(its, action) ==
    IF action.type = "updateQty" /\ find(its, action.id) # 0
    THEN [its EXCEPT ![find(its, action.id)].quantity = action.newVal]
    ELSE its

\* performUndo (the definition in force is the last one of the file): the
\* items after the restore.
undoItems(its, action) ==
    IF action.type = "updateQty" /\ find(its, action.id) # 0
    THEN [its EXCEPT ![find(its, action.id)].quantity = action.oldVal]
    ELSE its

\* performUndo: the tree after the restore (before it is drawn again).
undoStruct(struct, action) ==
    IF action.type = "restoreHouse" THEN put(struct, action.name, action.data)
    ELSE IF action.type = "restoreRoom"
    THEN IF action.house \in DOMAIN struct
         THEN [struct EXCEPT ![action.house] = put(@, action.name, action.data)]
         ELSE struct
    ELSE IF action.type = "restoreStorage"
    THEN IF action.house \in DOMAIN struct /\ action.room \in DOMAIN struct[action.house]
         THEN [struct EXCEPT ![action.house][action.room] =
                 spliceIn(@, action.data, action.name)]
         ELSE struct
    ELSE struct

\* An undo that keeps its record.
undoSlotKept(action) == action

\* performUndo: what it leaves in AppState.lastAction.
undoSlot(action) == Null

\* performUndo()
performUndoR(st) ==
    IF st.lastAction = Null THEN st
    ELSE LET restored == [st EXCEPT
                    !.items = undoItems(@, st.lastAction),
                    !.locationStructure = undoStruct(@, st.lastAction)]
             new == IF st.lastAction.type = "restoreHouse"
                    THEN populate(restored, "house") ELSE restored
         IN  afterSave(new,
                [populate(render(StorageSave(new)), "init")
                    EXCEPT !.lastAction = undoSlot(st.lastAction)])

----------------------------------------------------------------------------
(* Dates *)

\* A Date object is its time value, counted here in days since 1970-01-01:
\* every date of the model is a midnight, and the zone of the device is UTC.

\* The time value of the civil date y-m-d (m from 1).
DayOf(y, m, d) ==
    LET yy == IF m <= 2 THEN y - 1 ELSE y
        era == yy \div 400
        yoe == yy - era * 400
        mp == IF m > 2 THEN m - 3 ELSE m + 9
        doy == (153 * mp + 2) \div 5 + d - 1
        doe == yoe * 365 + yoe \div 4 - yoe \div 100 + doy
    IN  era * 146097 + doe - 719468

\* The civil date <<y, m, d>> of a time value.
YearMonthDay(t) ==
    LET z == t + 719468
        era == z \div 146097
        doe == z - era * 146097
        yoe == (doe - doe \div 1460 + doe \div 36524 - doe \div 146096) \div 365
        doy == doe - (365 * yoe + yoe \div 4 - yoe \div 100)
        mp == (5 * doy + 2) \div 153
        d == doy - (153 * mp + 2) \div 5 + 1
        m == IF mp < 10 THEN mp + 3 ELSE mp - 9
    IN  <<yoe + era * 400 + (IF m <= 2 THEN 1 ELSE 0), m, d>>

\* The texts a date field of the model holds, read as year, month and day.
DateFields(text) ==
    CASE text = "2026-01-01" -> <<2026, 1, 1>>
      [] text = "2026-01-31" -> <<2026, 1, 31>>
      [] text = "2026-03-31" -> <<2026, 3, 31>>

\* new Date(text) for the text of a date field.
newDate(text) == LET f == DateFields(text) IN DayOf(f[1], f[2], f[3])

\* date.toISOString().split('T')[0], as year, month and day.
toISODate(t) == YearMonthDay(t)

\* date.getMonth(): the month counted from 0.
getMonth(t) == YearMonthDay(t)[2] - 1

\* date.setMonth(month): the day of the month is kept and carried into the
\* following month when the month has fewer days.
setMonth(t, month) ==
    LET c == YearMonthDay(t)
    IN  DayOf(c[1] + (month \div 12), (month % 12) + 1, 1) + c[3] - 1

\* parseInt(text) for the text of the shelf-life field (one digit).
parseInt(text) == CHOOSE n \in 1..9 : toString(n) = text

\* new Date() with setHours(0, 0, 0, 0) at the clock reading `clock`: the
\* readings of the model are one day apart.
Today(clock) == newDate("2026-01-01") + clock - 1

\* Math.max(...dates)
MathMax(dates) == CHOOSE x \in Elems(dates) : \A y \in Elems(dates) : x >= y

\* Math.min(...dates)
MathMin(dates) == CHOOSE x \in Elems(dates) : \A y \in Elems(dates) : x <= y

\* The dates getEffectiveExpiry collects, in the order it pushes them.
collectedDates(item) ==
    (IF item.expiry # "" THEN <<newDate(item.expiry)>> ELSE <<>>)
    \o (IF item.isOpened /\ item.openedDate \notin {"null", ""}
           /\ item.shelfLife \notin {"null", ""}
        THEN LET openD == newDate(item.openedDate)
             IN  <<setMonth(openD, getMonth(openD) + parseInt(item.shelfLife))>>
        ELSE <<>>)

\* getEffectiveExpiry(item): <<>> for null, <<t>> for the date t.
getEffectiveExpiry(item) ==
    LET dates == collectedDates(item)
    IN  IF dates = <<>> THEN <<>> ELSE <<MathMin(dates)>>

\* getDaysUntil(dateObj) at the clock reading `clock`.
getDaysUntil(t, clock) == t - Today(clock)

----------------------------------------------------------------------------
(* The inventory list *)

\* The characters of the texts of the model; the names of houses, rooms and
\* storages are single letters.
Chars(s) ==
    CASE s = "" -> <<>>
      [] s = "Milk" -> << "M", "i", "l", "k" >>
      [] s = "Mi" -> << "M", "i" >>
      [] s = "111" -> << "1", "1", "1" >>
      [] s = "AB1" -> << "A", "B", "1" >>
      [] s = "B1" -> << "B", "1" >>
      [] s = " > " -> << " ", ">", " " >>
      [] s = "A>K" -> << "A", ">", "K" >>
      [] s = "A > K" -> << "A", " ", ">", " ", "K" >>
      [] s = "A > K > " -> << "A", " ", ">", " ", "K", " ", ">", " " >>
      [] s = "A > K > P" -> << "A", " ", ">", " ", "K", " ", ">", " ", "P" >>
      [] s = "A > K > P > Q" ->
            << "A", " ", ">", " ", "K", " ", ">", " ", "P", " ", ">", " ", "Q" >>
      [] OTHER -> <<s>>

\* text.toLowerCase()
toLowerCase(cs) ==
    LET lower(c) == CASE c = "A" -> "a" [] c = "B" -> "b" [] c = "K" -> "k"
                      [] c = "L" -> "l" [] c = "M" -> "m" [] c = "P" -> "p"
                      [] c = "Q" -> "q" [] OTHER -> c
    IN  [i \in 1..Len(cs) |-> lower(cs[i])]

\* text.includes(part)
includes(cs, part) ==
    \E i \in 0..(Len(cs) - Len(part)) : SubSeq(cs, i + 1, i + Len(part)) = part

\* a.localeCompare(b) for texts of letters of one case: -1, 0 or 1.
RECURSIVE localeCompare(_, _)
localeCompare(x, y) ==
    IF x = <<>> THEN (IF y = <<>> THEN 0 ELSE -1)
    ELSE IF y = <<>> THEN 1
    ELSE IF Head(x) = Head(y) THEN localeCompare(Tail(x), Tail(y))
    ELSE IF StrLt(Head(x), Head(y)) THEN -1 ELSE 1

\* 1. Text search: the term is lowered, the name is lowered, the barcode is not.
textMatch(item, text) ==
    LET term == toLowerCase(Chars(text))
    IN  ~(/\ term # <<>>
          /\ ~includes(toLowerCase(Chars(item.name)), term)
          /\ ~includes(Chars(item.barcode), term))

\* A location test that looks at the house only.
locationMatchHouse(item, flt) ==
    ~(flt.house # "" /\ item.location.house # flt.house)

\* 2. Granular location.
locationMatch(item, flt) ==
    /\ ~(flt.house # "" /\ item.location.house # flt.house)
    /\ ~(flt.room # "" /\ item.location.room # flt.room)
    /\ ~(flt.storage # "" /\ item.location.storage # flt.storage)

\* 2. Category.
categoryMatch(item, flt) == ~(flt.category # "" /\ item.category # flt.category)

\* A zero test that hides nothing.
zeroMatchAll(item, flt) == TRUE

\* 3. Zero quantity.
zeroMatch(item, flt) == ~(~flt.showZero /\ item.quantity <= 0)

\* The days left of an item for the status filters.
daysLeftOf(item, clock) ==
    LET effDate == getEffectiveExpiry(item)
    IN  IF effDate # <<>> THEN getDaysUntil(effDate[1], clock) ELSE 9999

\* 4. Status filters.
statusMatch(item, flt, clock) ==
    LET daysLeft == daysLeftOf(item, clock)
    IN  /\ ~(flt.expired /\ daysLeft >= 0)
        /\ ~(flt.soon /\ (daysLeft < 0 \/ daysLeft > 30))

\* The filter of renderInventory: the item gets a card.
shown(item, flt, text, clock) ==
    /\ textMatch(item, text)
    /\ locationMatch(item, flt)
    /\ categoryMatch(item, flt)
    /\ zeroMatch(item, flt)
    /\ statusMatch(item, flt, clock)

\* The class of the expiry tag of a card ("none": the card has no tag).
expiryTag(item, clock) ==
    LET effDate == getEffectiveExpiry(item)
    IN  IF effDate = <<>> THEN "none"
        ELSE LET daysLeft == getDaysUntil(effDate[1], clock)
             IN  IF daysLeft < 0 THEN "expired"
                 ELSE IF daysLeft < 30 THEN "soon"
                 ELSE "ok"

\* house + room + storage of a location.
locationText(loc) == Chars(loc.house) \o Chars(loc.room) \o Chars(loc.storage)

\* The comparator of the sort of renderInventory.
compare(a, b, srt) ==
    IF srt = "date" THEN b.createdAt - a.createdAt
    ELSE IF srt = "location"
    THEN localeCompare(locationText(a.location), locationText(b.location))
    ELSE IF srt = "expiry"
    THEN LET da == getEffectiveExpiry(a)
             db == getEffectiveExpiry(b)
         IN  IF da = <<>> THEN 1
             ELSE IF db = <<>> THEN -1
             ELSE da[1] - db[1]
    ELSE IF srt = "category"
    THEN (IF a.category = b.category THEN 0
          ELSE IF StrLt(a.category, b.category) THEN -1 ELSE 1)
    ELSE 0

\* Array.prototype.sort is stable; the order in which it hands two elements
\* to the comparator is the engine's: the later element first, or the earlier
\* element first. With a comparator that is not consistent the result depends
\* on it.
Engines == {"laterFirst", "earlierFirst"}

\* The later element x is put before the earlier element e.
goesBefore(x, e, srt, engine) ==
    IF engine = "laterFirst" THEN compare(x, e, srt) < 0 ELSE compare(e, x, srt) > 0

RECURSIVE insertBy(_, _, _, _)
insertBy(s, x, srt, engine) ==
    IF s = <<>> THEN <<x>>
    ELSE IF goesBefore(x, s[Len(s)], srt, engine)
    THEN Append(insertBy(SubSeq(s, 1, Len(s) - 1), x, srt, engine), s[Len(s)])
    ELSE Append(s, x)

\* filtered.sort((a, b) => ...)
RECURSIVE filteredSort(_, _, _)
filteredSort(s, srt, engine) ==
    IF s = <<>> THEN <<>>
    ELSE insertBy(filteredSort(SubSeq(s, 1, Len(s) - 1), srt, engine), s[Len(s)], srt, engine)

\* renderInventory(): the items of the cards, in the order of the list.
renderInventory(its, flt, srt, text, clock, engine) ==
    LET pass(item) == shown(item, flt, text, clock)
    IN  filteredSort(SelectSeq(its, pass), srt, engine)

----------------------------------------------------------------------------
(* Import *)

\* data.items && data.locationStructure && data.categories, for a parsed
\* document whose fields, when present, are arrays and objects.
complete(data) == {"items", "locationStructure", "categories"} \subseteq DOMAIN data

\* An import that keeps the items of the list before those of the document.
importedItemsMerged(st, data) == st.items \o data.items

\* AppState.items = data.items
importedItems(st, data) == data.items

\* Storage.load()
StorageLoad(st) ==
    IF st.inventory_data = NoData THEN st
    ELSE [st EXCEPT !.items = st.inventory_data.items,
                    !.categories = st.inventory_data.categories,
                    !.locationStructure = st.inventory_data.locationStructure]

\* location.reload(): the script runs again (lastAction is null) and init()
\* loads the stored record, fills the filter selects and renders the tree.
reload(st) ==
    populate(render(StorageLoad([st EXCEPT !.lastAction = Null, !.filterInputs = NoSelects])),
             "init")

\* reader.onload of fileInput.onchange for the parsed document `data`, the
\* confirm dialog answered `confirmed`.
fileInputOnchangeR(st, data, confirmed) ==
    IF complete(data) /\ confirmed
    THEN LET new == [st EXCEPT !.items = importedItems(st, data),
                               !.locationStructure = data.locationStructure,
                               !.categories = data.categories]
         IN  afterSave(new, reload(StorageSave(new)))
    ELSE st

----------------------------------------------------------------------------
(* Export *)

\* The fields of an item that can hold null.
Nullable == {"openedDate", "shelfLife"}

\* JSON.stringify of an item: each field becomes a token, null for a null
\* and the printed value for a text, a number, a boolean or the location.
JSONstringifyItem(item) ==
    [f \in DOMAIN item |->
        IF f \in Nullable /\ item[f] = "null"
        THEN [json |-> "null"]
        ELSE [json |-> IF f \in {"quantity"} THEN "number"
                       ELSE IF f = "isOpened" THEN "boolean"
                       ELSE IF f = "location" THEN "object"
                       ELSE "string",
              value |-> item[f]]]

\* JSON.stringify(data, null, 2) of a backup document.
JSONstringify(data) ==
    [items |-> [k \in 1..Len(data.items) |-> JSONstringifyItem(data.items[k])],
     locationStructure |-> data.locationStructure,
     categories |-> data.categories,
     exportedAt |-> data.exportedAt]

\* A reading of a token that takes null for an empty text.
parseValueNullAsText(token) == IF token.json = "null" THEN "" ELSE token.value

\* The value JSON.parse gives for a token.
parseValue(token) == IF token.json = "null" THEN "null" ELSE token.value

\* JSON.parse(event.target.result) of the text of a backup file.
JSONparse(text) ==
    [items |-> [k \in 1..Len(text.items) |->
                    [f \in DOMAIN text.items[k] |-> parseValue(text.items[k][f])]],
     locationStructure |-> text.locationStructure,
     categories |-> text.categories,
     exportedAt |-> text.exportedAt]

\* exportData(): the text of the file it offers for download.
exportData(st, clock) ==
    JSONstringify([items |-> st.items, locationStructure |-> st.locationStructure,
                   categories |-> st.categories, exportedAt |-> toISODate(Today(clock))])

----------------------------------------------------------------------------
(* Scanner *)

\* The most decode callbacks the model follows in one session.
MaxScans == 2

\* text.split(sep), on the characters of the text.
RECURSIVE split(_, _)
split(cs, sep) ==
    IF includes(cs, sep)
    THEN LET i == CHOOSE j \in 1..Len(cs) :
                    /\ SubSeq(cs, j, j + Len(sep) - 1) = sep
                    /\ \A k \in 1..(j - 1) : SubSeq(cs, k, k + Len(sep) - 1) # sep
         IN  <<SubSeq(cs, 1, i - 1)>> \o split(SubSeq(cs, i + Len(sep), Len(cs)), sep)
    ELSE <<cs>>

\* The name a part of a scanned path spells.
fromChars(cs) == CHOOSE n \in {"", "A", "B", "K", "L", "P", "Q"} : Chars(n) = cs

\* A parse that takes the first three parts of a longer path.
tryParseLocationFirstThree(text) ==
    LET parts == split(Chars(text), Chars(" > "))
    IN  IF Len(parts) >= 3
        THEN [house |-> fromChars(parts[1]), room |-> fromChars(parts[2]),
              storage |-> fromChars(parts[3])]
        ELSE Null

\* tryParseLocation(text, callback): the location handed to the callback, or
\* Null when the text is answered with "Not a valid Location QR".
tryParseLocation(text) ==
    LET parts == split(Chars(text), Chars(" > "))
    IN  IF Len(parts) = 3
        THEN [house |-> fromChars(parts[1]), room |-> fromChars(parts[2]),
              storage |-> fromChars(parts[3])]
        ELSE Null

\* The callback of a smart scan: the filter selects after it has set them.
\* The room select is filled for the house the house select showed before.
smartScanSelects(st, loc) ==
    LET s1 == populate(st, "room")
        s2 == [s1 EXCEPT !.filterInputs.house = setValue(s1.filterInputs.houses, loc.house)]
        s3 == populate(s2, "storage")
        s4 == [s3 EXCEPT !.filterInputs.room = setValue(s3.filterInputs.rooms, loc.room)]
    IN  [s4 EXCEPT !.filterInputs.storage = setValue(s4.filterInputs.storages, loc.storage)]

\* handleSmartScan(text) after its stopScanning(), for the target of the
\* session: the state, the filters and the search text it leaves and what it
\* made of the text. The barcode and location fields of the add form it
\* fills are inputs of the submit handler.
handleSmartScanR(st, flt, search, target, text) ==
    LET same(report) == [st |-> st, filters |-> flt, searchInput |-> search,
                         report |-> report]
        loc == tryParseLocation(text)
    IN  IF target = "barcode" THEN same("barcode")
        ELSE IF target = "loc-form"
        THEN same(IF loc # Null THEN "location" ELSE "invalid")
        ELSE IF target = "smart-scan"
        THEN IF includes(Chars(text), Chars(" > "))
             THEN IF loc # Null
                  THEN [st |-> smartScanSelects(st, loc),
                        filters |-> [flt EXCEPT !.house = loc.house, !.room = loc.room,
                                                !.storage = loc.storage],
                        searchInput |-> search,
                        report |-> "location"]
                  ELSE same("invalid")
             ELSE [st |-> st, filters |-> flt, searchInput |-> text, report |-> "search"]
        ELSE same("none")

\* stopScanning(): html5QrCode.stop() is asked for while a session is on; the
\* session ends when its promise settles. A stop asked for while an earlier
\* one is still pending is refused by the library: `second` says whether it
\* answers with a rejected promise or throws.
stopScanning(sc, second) ==
    IF sc.isScanning
    THEN IF sc.camera = "on" THEN [sc EXCEPT !.camera = "stopping"]
         ELSE IF second = "rejects" THEN [sc EXCEPT !.isScanning = FALSE]
         ELSE sc
    ELSE sc

----------------------------------------------------------------------------
(* Handlers as steps of the system *)

\* The handlers that record an undo action when they go through.
Recording == {"updateQuantity", "deleteLocation", "editCatBtn", "delCatBtn"}

\* The quantities the model follows an item through.
QtyRange == -1..MaxQty

\* The states the model follows: the sizes are capped.
Bounded(st) ==
    /\ Len(st.items) <= MaxItems
    /\ \A k \in 1..Len(st.items) : st.items[k].quantity \in QtyRange
    /\ Len(st.categories) <= MaxCats
    /\ Cardinality(AllRooms(st.locationStructure)) <= MaxRooms
    /\ Cardinality(AllStorages(st.locationStructure)) <= MaxStorages

\* What ran just before a performUndo: a handler that recorded the action it
\* undoes ("record"), a performUndo that had a record ("undo"), or anything else.
Before(name) ==
    IF name # "performUndo" THEN ""
    ELSE IF lastOp.ok /\ lastOp.name \in Recording THEN "record"
    ELSE IF lastOp.ok /\ lastOp.name = "performUndo" THEN "undo"
    ELSE "other"

\* The state becomes st; lastOp notes the handler, whether it went through,
\* what it acted on and, for performUndo, what ran before it.
Becomes(st, name, ok, kind) ==
    /\ Bounded(st)
    /\ items' = st.items
    /\ categories' = st.categories
    /\ locationStructure' = st.locationStructure
    /\ lastAction' = st.lastAction
    /\ inventory_data' = st.inventory_data
    /\ filterInputs' = st.filterInputs
    /\ lastOp' = [name |-> name, ok |-> ok, kind |-> kind,
                  after |-> Before(name)]
    /\ UNCHANGED <<now, filters, sortBy, searchInput, storageFull, download, scanner>>

btnAddRoot(h) ==
    Becomes(btnAddRootR(AppState, h), "btnAddRoot",
            h # "" /\ h \notin DOMAIN locationStructure, "house")

btnAddHouse(n) ==
    Becomes(btnAddHouseR(AppState, n), "btnAddHouse",
            n # "" /\ n \notin DOMAIN locationStructure, "house")

btnAddRoom(house, r) ==
    /\ house \in DOMAIN locationStructure
    /\ Becomes(btnAddRoomR(AppState, house, r), "btnAddRoom",
               r # "" /\ r \notin DOMAIN locationStructure[house], "room")

btnAddStorage(house, room, s) ==
    /\ house \in DOMAIN locationStructure
    /\ room \in DOMAIN locationStructure[house]
    /\ Becomes(btnAddStorageR(AppState, house, room, s), "btnAddStorage",
               s # "" /\ s \notin Elems(locationStructure[house][room]), "storage")

renameLocation(node, newName) ==
    /\ node \in TreeNodes(locationStructure)
    /\ Becomes(renameLocationR(AppState, node, newName), "renameLocation",
               newName # "" /\ newName # node.name, node.type)

deleteLocation(node) ==
    /\ node \in TreeNodes(locationStructure)
    /\ Becomes(deleteLocationR(AppState, node), "deleteLocation",
               ~blocked(items, node), node.type)

addItemSubmit(name, barcode, category, quantity, loc, opened) ==
    /\ category \in {""} \cup Elems(categories)
    /\ loc \in FormLocations(locationStructure)
    /\ LET st == addItemSubmitR(AppState, name, barcode, category, quantity, loc, now, opened)
       IN  /\ Becomes(st, "addItemSubmit", trim(name) # "",
                      IF Len(st.items) = Len(items) THEN "merge" ELSE "new")

\* The edit form is opened on the card of items[n] and saved.
editItemSubmit(n, category, quantity, loc, opened) ==
    /\ n \in 1..Len(items)
    /\ category \in {editCategoryDefault(categories, items[n])} \cup Elems(categories)
    /\ loc \in FormLocations(locationStructure)
    /\ Becomes(editItemSubmitR(AppState, items[n].id, category, quantity, loc, opened),
               "editItemSubmit", TRUE,
               IF items[find(items, items[n].id)].isOpened /\ ~opened.checked
               THEN "closed" ELSE "item")

\* The edit form is opened on the card of items[n] and its delete button clicked.
btnDelete(n) ==
    /\ n \in 1..Len(items)
    /\ Becomes(btnDeleteR(AppState, items[n].id), "btnDelete", TRUE, "item")

\* A quantity button of the card of items[n], or a call with another delta.
updateQuantity(n, delta) ==
    /\ n \in 1..Len(items)
    /\ Becomes(updateQuantityR(AppState, items[n].id, delta), "updateQuantity",
               ~refused(items[find(items, items[n].id)].quantity, delta), "updateQty")

\* The category buttons of the settings view are clicked after the navigation
\* bar opened the view, which runs syncCategories().
inSettings == syncCategories(AppState) = AppState

navSettings ==
    Becomes(navSettingsR(AppState), "navSettings", ~inSettings, "categories")

btnAddCat(n) ==
    /\ Becomes(btnAddCatR(AppState, n), "btnAddCat", TRUE, "categories")

btnSettingsAddCat(n) ==
    /\ inSettings
    /\ Becomes(btnSettingsAddCatR(AppState, n), "btnSettingsAddCat",
               n \notin Elems(categories), "categories")

editCatBtn(cat, newName) ==
    /\ inSettings
    /\ cat \in Elems(categories)
    /\ Becomes(editCatBtnR(AppState, cat, newName), "editCatBtn", newName # cat, "catRename")

delCatBtn(cat) ==
    /\ inSettings
    /\ cat \in Elems(categories)
    /\ Becomes(delCatBtnR(AppState, cat), "delCatBtn", TRUE, "catDelete")

\* The undo button of the toast.
performUndo ==
    Becomes(performUndoR(AppState), "performUndo", lastAction # Null, lastAction.type)

\* Time passes.
Tick ==
    /\ now < MaxClock
    /\ now' = now + 1
    /\ UNCHANGED <<items, categories, locationStructure, lastAction, inventory_data,
                   filters, sortBy, searchInput, filterInputs, storageFull, download, scanner,
          lastOp>>

\* A handler of the inventory view leaves the list as flt, srt and text say,
\* and the filter selects and the tree as they are in st.
Shows(flt, srt, text, st, name) ==
    /\ filters' = flt
    /\ sortBy' = srt
    /\ searchInput' = text
    /\ filterInputs' = st.filterInputs
    /\ locationStructure' = st.locationStructure
    /\ lastOp' = [name |-> name, ok |-> TRUE, kind |-> "view", after |-> ""]
    /\ UNCHANGED <<items, categories, lastAction, inventory_data, now, storageFull,
                   download, scanner>>

\* A sort chip is clicked.
sortChipClick(srt) == Shows(filters, srt, searchInput, AppState, "sortChip")

\* A status checkbox (expired, soon) is changed.
filterCheckboxChange(key) ==
    Shows([filters EXCEPT ![key] = ~@], sortBy, searchInput, AppState, "filterCheckbox")

\* What a filter select offers besides its empty option.
filterOptions(fi, key) ==
    IF key = "house" THEN fi.houses
    ELSE IF key = "room" THEN fi.rooms
    ELSE IF key = "storage" THEN fi.storages
    ELSE fi.categories

\* bindFilter: the change listener of a filter select (house, room, storage,
\* category), the select now showing value.
bindFilterR(st, key) ==
    IF key = "house" THEN populate(populate(st, "room"), "storage")
    ELSE IF key = "room" THEN populate(st, "storage")
    ELSE st

\* A filter select (house, room, storage, category) is changed to value.
bindFilterChange(key, value) ==
    /\ value \in {""} \cup filterOptions(filterInputs, key)
    /\ value # filterInputs[key]
    /\ Shows([filters EXCEPT ![key] = value], sortBy, searchInput,
             bindFilterR([AppState EXCEPT !.filterInputs[key] = value], key), "bindFilter")

\* The show-zero box is changed.
zeroChange == Shows([filters EXCEPT !.showZero = ~@], sortBy, searchInput, AppState, "zero")

\* The clear-all-filters button is clicked.
clearClick ==
    Shows(NoFilters, sortBy, searchInput,
          [AppState EXCEPT !.filterInputs =
                [@ EXCEPT !.house = "", !.room = "", !.rooms = {}, !.storage = "",
                          !.storages = {}, !.category = ""]],
          "clear")

\* The search field is typed into (or filled by a scan).
searchInputInput(text) ==
    /\ text # searchInput
    /\ Shows(filters, sortBy, text, AppState, "searchInput")

\* A backup file holding the document `data` is chosen and read; after an
\* import the page is loaded again, its search field empty or as it was.
fileInputOnchange(data, confirmed, text) ==
    LET st == fileInputOnchangeR(AppState, data, confirmed)
        done == complete(data) /\ confirmed /\ ~storageFull
    IN  /\ Bounded(st)
        /\ items' = st.items
        /\ categories' = st.categories
        /\ locationStructure' = st.locationStructure
        /\ lastAction' = st.lastAction
        /\ inventory_data' = st.inventory_data
        /\ filterInputs' = st.filterInputs
        /\ filters' = IF done THEN NoFilters ELSE filters
        /\ sortBy' = IF done THEN "date" ELSE sortBy
        /\ searchInput' = IF done THEN text ELSE searchInput
        /\ text \in {"", searchInput}
        /\ lastOp' = [name |-> "fileInput", ok |-> done,
                      kind |-> IF complete(data) THEN "complete" ELSE "incomplete",
                      after |-> IF download # NoFile /\ data = JSONparse(download.text)
                                THEN "download" ELSE ""]
        /\ UNCHANGED <<now, storageFull, download, scanner>>

\* The quota of localStorage is used up, or room is made again (by another
\* page of the origin): from now on setItem throws, or goes through.
storageQuota(full) ==
    /\ storageFull # full
    /\ storageFull' = full
    /\ lastOp' = [name |-> "storageQuota", ok |-> TRUE, kind |-> "storage", after |-> ""]
    /\ UNCHANGED <<items, categories, locationStructure, lastAction, inventory_data, now,
                   filters, sortBy, searchInput, filterInputs, download, scanner>>

\* The export button of the settings view: a backup file is written.
btnExport ==
    /\ download' = [text |-> exportData(AppState, now), of |-> Core(AppState)]
    /\ lastOp' = [name |-> "btnExport", ok |-> TRUE, kind |-> "file", after |-> ""]
    /\ UNCHANGED <<items, categories, locationStructure, lastAction, inventory_data, now,
                   filters, sortBy, searchInput, filterInputs, storageFull, scanner>>

\* The backup file written last is chosen in the import dialog.
fileInputDownload ==
    /\ download # NoFile
    /\ fileInputOnchange(JSONparse(download.text), TRUE, "")

\* The targets a scan is started for.
ScanTargets == {"barcode", "loc-form", "smart-scan"}

\* startScanning(target): a session starts when none is on and the camera
\* comes up; when the camera does not (it is still stopping, or it fails),
\* the catch of start() stops the session at once.
startScanningR(sc, target, cameraOk) ==
    IF sc.isScanning THEN sc
    ELSE IF sc.camera = "off" /\ cameraOk
    THEN [isScanning |-> TRUE, scannerTarget |-> target, camera |-> "on", handled |-> 0]
    ELSE [sc EXCEPT !.scannerTarget = target]

\* A scan button is clicked: the one of the header (smart-scan) or one of the
\* add form (barcode, loc-form).
startScanning(target, cameraOk) ==
    /\ scanner' = startScanningR(scanner, target, cameraOk)
    /\ lastOp' = [name |-> "startScanning", ok |-> ~scanner.isScanning,
                  kind |-> target, after |-> ""]
    /\ UNCHANGED <<items, categories, locationStructure, lastAction, inventory_data, now,
                   filters, sortBy, searchInput, filterInputs, storageFull, download>>

\* The decode callback of the library fires with text: handleSmartScan(text).
\* It can fire while the camera runs and, once more, while a stop is pending.
handleSmartScan(text, second) ==
    /\ scanner.camera \in {"on", "stopping"}
    /\ scanner.handled < MaxScans
    /\ LET thrown == scanner.isScanning /\ scanner.camera = "stopping" /\ second = "throws"
           res == IF thrown
                  THEN [st |-> AppState, filters |-> filters, searchInput |-> searchInput,
                        report |-> "thrown"]
                  ELSE handleSmartScanR(AppState, filters, searchInput,
                                        scanner.scannerTarget, text)
       IN  /\ scanner' = [stopScanning(scanner, second) EXCEPT !.handled = @ + 1]
           /\ filters' = res.filters
           /\ searchInput' = res.searchInput
           /\ filterInputs' = res.st.filterInputs
           /\ locationStructure' = res.st.locationStructure
           /\ lastOp' = [name |-> "handleSmartScan", ok |-> ~thrown, kind |-> res.report,
                         after |-> text]
    /\ UNCHANGED <<items, categories, lastAction, inventory_data, now, sortBy, storageFull,
                   download>>

\* The promise of html5QrCode.stop() settles: the session is over.
stopSettled ==
    /\ scanner.camera = "stopping"
    /\ scanner' = [scanner EXCEPT !.camera = "off", !.isScanning = FALSE]
    /\ lastOp' = [name |-> "stopSettled", ok |-> TRUE, kind |-> "scanner", after |-> ""]
    /\ UNCHANGED <<items, categories, locationStructure, lastAction, inventory_data, now,
                   filters, sortBy, searchInput, filterInputs, storageFull, download>>

\* The close button of the scanner overlay, the camera running.
btnCloseScanner ==
    /\ scanner.isScanning /\ scanner.camera = "on"
    /\ scanner' = stopScanning(scanner, "rejects")
    /\ lastOp' = [name |-> "btnCloseScanner", ok |-> TRUE, kind |-> "scanner", after |-> ""]
    /\ UNCHANGED <<items, categories, locationStructure, lastAction, inventory_data, now,
                   filters, sortBy, searchInput, filterInputs, storageFull, download>>

----------------------------------------------------------------------------
(* The system *)

\* The state of a first start: AppState as declared, nothing stored.
Init ==
    /\ items = <<>>
    /\ categories = << "Food", "Facial", "General", "Medicine", "Stationery" >>
    /\ locationStructure = EmptyObject
    /\ lastAction = Null
    /\ inventory_data = NoData
    /\ now = 1
    /\ filters = NoFilters
    /\ sortBy = "date"
    /\ searchInput = ""
    /\ filterInputs = populateFilterDropdowns(NoSelects, locationStructure, categories, "init")
    /\ storageFull = FALSE
    /\ download = NoFile
    /\ scanner = NoScanner
    /\ lastOp = [name |-> "init", ok |-> TRUE, kind |-> "none", after |-> ""]

\* What the user types and picks.
HouseNames == {"A", "B"}
RoomNames == {"K"}
StorageNames == {"P", "Q"}
CatNames == {"Food", "Snack"}
NameInputs == {"", " ", "Milk", " Milk "}
BarcodeInputs == {"", "111"}
QtyInputs == -1..MaxQty

\* The opened box with its date and shelf-life fields: untouched, checked and
\* filled, and unchecked again with the fields still filled.
OpenedInputs ==
    {Unchecked,
     [checked |-> TRUE, date |-> "2026-01-01", life |-> "6", expiry |-> ""],
     [checked |-> FALSE, date |-> "2026-01-01", life |-> "6", expiry |-> ""]}
Deltas == (0 - MaxQty - 1)..MaxQty

\* What the camera reads: a barcode, paths of two, three and four parts, a
\* path whose last part is empty, and a text with a bare ">".
ScanTexts == {"111", "A > K", "A > K > P", "A > K > P > Q", "A > K > ", "A>K"}

\* The chips of the sort bar.
SortChips == {"date", "location", "expiry", "category"}

\* What is typed into the search field.
SearchTexts == {"", "Mi", "111", "AB1", "B1"}

\* The barcodes of the items the search is tried on.
SearchBarcodes == {"", "111", "AB1"}

\* The date fields of a form as they are filled for the expiry of an item.
ExpiryInputs ==
    {[checked |-> c[1], date |-> c[2], life |-> c[3], expiry |-> e] :
        c \in {<<FALSE, "", "">>, <<TRUE, "2026-01-01", "1">>, <<TRUE, "2026-03-31", "1">>},
        e \in {"", "2026-01-01", "2026-01-31", "2026-03-31"}}

\* The item of the backup documents.
DocItem ==
    newItem("111", "Milk", "Food", 1, [house |-> "B", room |-> "K", storage |-> "Q"], 1,
            Unchecked)

\* The tree of the backup documents.
DocTree == put(EmptyObject, "B", put(EmptyObject, "K", << "Q", "P" >>))

\* Backup documents with all their fields.
FullDocs ==
    {[items |-> its, categories |-> cats, locationStructure |-> struct,
      exportedAt |-> "2026-01-01"] :
        its \in {<<>>, <<DocItem>>}, cats \in {<<>>, << "Snack" >>},
        struct \in {EmptyObject, DocTree}}

\* Backup documents, some of their fields missing.
Docs ==
    {[k \in (DOMAIN d) \ missing |-> d[k]] :
        d \in FullDocs, missing \in SUBSET {"items", "categories", "locationStructure"}}

NamesOf(type) ==
    IF type = "house" THEN HouseNames ELSE IF type = "room" THEN RoomNames ELSE StorageNames

Next ==
    \/ \E h \in HouseNames : btnAddRoot(h)
    \/ \E h \in HouseNames : btnAddHouse(h)
    \/ \E h \in HouseNames, r \in RoomNames : btnAddRoom(h, r)
    \/ \E h \in HouseNames, r \in RoomNames, s \in StorageNames : btnAddStorage(h, r, s)
    \/ \E node \in TreeNodes(locationStructure) :
          \E newName \in NamesOf(node.type) : renameLocation(node, newName)
    \/ \E node \in TreeNodes(locationStructure) : deleteLocation(node)
    \/ \E name \in NameInputs, barcode \in BarcodeInputs, category \in {""} \cup CatNames,
          quantity \in QtyInputs, loc \in FormLocations(locationStructure),
          opened \in OpenedInputs :
          addItemSubmit(name, barcode, category, quantity, loc, opened)
    \/ \E n \in 1..Len(items), category \in {""} \cup CatNames \cup {"Uncategorized"},
          quantity \in QtyInputs, loc \in FormLocations(locationStructure),
          opened \in OpenedInputs :
          editItemSubmit(n, category, quantity, loc, opened)
    \/ \E n \in 1..Len(items) : btnDelete(n)
    \/ \E n \in 1..Len(items), delta \in Deltas : updateQuantity(n, delta)
    \/ navSettings
    \/ \E c \in CatNames : btnAddCat(c)
    \/ \E c \in CatNames : btnSettingsAddCat(c)
    \/ \E cat \in CatNames, newName \in CatNames : editCatBtn(cat, newName)
    \/ \E cat \in CatNames : delCatBtn(cat)
    \/ performUndo
    \/ \E srt \in SortChips : sortChipClick(srt)
    \/ \E key \in {"expired", "soon"} : filterCheckboxChange(key)
    \/ \E key \in {"house", "room", "storage", "category"},
          value \in {""} \cup HouseNames \cup RoomNames \cup StorageNames \cup CatNames :
          bindFilterChange(key, value)
    \/ zeroChange
    \/ clearClick
    \/ \E text \in SearchTexts : searchInputInput(text)
    \/ \E data \in Docs, confirmed \in BOOLEAN, text \in SearchTexts :
          fileInputOnchange(data, confirmed, text)
    \/ Tick

Spec == Init /\ [][Next]_vars

\* The quantity handlers: items without a location, their quantities, one
\* category deleted, and undo.
NextQty ==
    \/ \E barcode \in BarcodeInputs, category \in {"", "Food"}, quantity \in QtyInputs :
          addItemSubmit("Milk", barcode, category, quantity, EmptyLoc, Unchecked)
    \/ \E n \in 1..Len(items), quantity \in QtyInputs :
          editItemSubmit(n, editCategoryDefault(categories, items[n]), quantity, EmptyLoc,
                         shownOpened(items[n]))
    \/ \E n \in 1..Len(items) : btnDelete(n)
    \/ \E n \in 1..Len(items), delta \in Deltas : updateQuantity(n, delta)
    \/ delCatBtn("Food")
    \/ performUndo
    \/ Tick

SpecQty == Init /\ [][NextQty]_vars

\* The trees followed where deletes and undo are: one room at most.
LocRooms == Cardinality(AllRooms(locationStructure)) <= MaxLocRooms

\* The location handlers: the tree, items put at its nodes, and undo.
NextLoc ==
    \/ \E h \in HouseNames : btnAddRoot(h)
    \/ \E h \in HouseNames, r \in RoomNames : btnAddRoom(h, r) /\ LocRooms'
    \/ \E h \in HouseNames, r \in RoomNames, s \in StorageNames : btnAddStorage(h, r, s)
    \/ \E node \in TreeNodes(locationStructure) :
          \E newName \in NamesOf(node.type) : renameLocation(node, newName)
    \/ \E node \in TreeNodes(locationStructure) : deleteLocation(node)
    \/ \E loc \in FormLocations(locationStructure) :
          items = <<>> /\ addItemSubmit("Milk", "111", "", 1, loc, Unchecked)
    \/ \E n \in 1..Len(items), loc \in FormLocations(locationStructure) :
          editItemSubmit(n, editCategoryDefault(categories, items[n]), items[n].quantity, loc,
                         shownOpened(items[n]))
    \/ \E n \in 1..Len(items) : btnDelete(n)
    \/ performUndo /\ LocRooms'

SpecLoc == Init /\ [][NextLoc]_vars

\* The names typed where a tree with two rooms is followed.
RenRoomNames == {"K", "L"}

RenNamesOf(type) ==
    IF type = "house" THEN HouseNames ELSE IF type = "room" THEN RenRoomNames ELSE StorageNames

\* The handlers that build and rename the tree, with one item put at its nodes.
NextRen ==
    \/ \E h \in HouseNames \cup {""} : btnAddRoot(h)
    \/ \E h \in HouseNames \cup {""} : btnAddHouse(h)
    \/ \E h \in HouseNames, r \in RenRoomNames \cup {""} : btnAddRoom(h, r)
    \/ \E h \in HouseNames, r \in RenRoomNames, s \in StorageNames \cup {""} :
          btnAddStorage(h, r, s)
    \/ \E node \in TreeNodes(locationStructure) :
          \E newName \in RenNamesOf(node.type) \cup {""} : renameLocation(node, newName)
    \/ \E loc \in FormLocations(locationStructure) :
          items = <<>> /\ addItemSubmit("Milk", "111", "", 1, loc, Unchecked)
    \/ \E n \in 1..Len(items), loc \in FormLocations(locationStructure) :
          editItemSubmit(n, editCategoryDefault(categories, items[n]), items[n].quantity, loc,
                         shownOpened(items[n]))

SpecRen == Init /\ [][NextRen]_vars

\* The item forms: names, barcodes, quantities, the opened box, and items with
\* and without a house.
NextItem ==
    \/ btnAddRoot("A")
    \/ \E name \in NameInputs, barcode \in BarcodeInputs, quantity \in QtyInputs,
          loc \in FormLocations(locationStructure), opened \in OpenedInputs :
          addItemSubmit(name, barcode, "", quantity, loc, opened)
    \/ \E n \in 1..Len(items), loc \in FormLocations(locationStructure),
          opened \in OpenedInputs :
          editItemSubmit(n, editCategoryDefault(categories, items[n]), items[n].quantity, loc,
                         opened)
    \/ \E n \in 1..Len(items) : btnDelete(n)
    \/ Tick

SpecItem == Init /\ [][NextItem]_vars

\* The category handlers: the list, the categories of the items, and undo.
NextCat ==
    \/ \E barcode \in BarcodeInputs, category \in {""} \cup CatNames :
          addItemSubmit("Milk", barcode, category, 1, EmptyLoc, Unchecked)
    \/ \E n \in 1..Len(items) : btnDelete(n)
    \/ navSettings
    \/ \E c \in CatNames : btnAddCat(c)
    \/ \E c \in CatNames : btnSettingsAddCat(c)
    \/ \E cat \in CatNames, newName \in CatNames : editCatBtn(cat, newName)
    \/ \E cat \in CatNames : delCatBtn(cat)
    \/ performUndo
    \/ Tick

SpecCat == Init /\ [][NextCat]_vars

\* The expiry of the items: forms with their date fields, the days passing,
\* the expiry sort and the status filters.
NextExp ==
    \/ \E barcode \in BarcodeInputs, opened \in ExpiryInputs :
          addItemSubmit("Milk", barcode, "", 1, EmptyLoc, opened)
    \/ \E n \in 1..Len(items), opened \in ExpiryInputs :
          /\ opened.expiry = items[n].expiry
          /\ editItemSubmit(n, editCategoryDefault(categories, items[n]), items[n].quantity,
                            EmptyLoc, opened)
    \/ \E srt \in {"date", "expiry"} : sortChipClick(srt)
    \/ \E key \in {"expired", "soon"} : filterCheckboxChange(key)
    \/ Tick

SpecExp == Init /\ [][NextExp]_vars

\* The location filters and the location sort: a tree, items at its nodes and
\* at none, the three selects and the clear button.
NextFilt ==
    \/ \E h \in HouseNames : btnAddRoot(h)
    \/ \E r \in RenRoomNames : btnAddRoom("A", r)
    \/ btnAddStorage("A", "K", "P")
    \/ \E loc \in FormLocations(locationStructure) :
          addItemSubmit("Milk", "111", "", 1, loc, Unchecked)
    \/ \E key \in {"house", "room", "storage"}, value \in {"", "A", "B", "K", "L", "P"} :
          bindFilterChange(key, value)
    \/ clearClick
    \/ \E srt \in {"date", "location"} : sortChipClick(srt)

SpecFilt == Init /\ [][NextFilt]_vars

\* The search field and the show-zero box: items with several barcodes, their
\* quantities going down and up.
NextSearch ==
    \/ \E barcode \in SearchBarcodes :
          addItemSubmit("Milk", barcode, "", 1, EmptyLoc, Unchecked)
    \/ \E n \in 1..Len(items), delta \in {-1, 1} : updateQuantity(n, delta)
    \/ \E text \in SearchTexts : searchInputInput(text)
    \/ zeroChange
    \/ clearClick

SpecSearch == Init /\ [][NextSearch]_vars

\* Import: a list, a tree and an undo record made in the app, and backup
\* documents read over them.
NextImp ==
    \/ btnAddRoot("A")
    \/ \E barcode \in BarcodeInputs : addItemSubmit("Milk", barcode, "", 1, EmptyLoc, Unchecked)
    \/ \E n \in 1..Len(items), delta \in {-1, 1} : updateQuantity(n, delta)
    \/ performUndo
    \/ searchInputInput("Mi")
    \/ \E data \in Docs, confirmed \in BOOLEAN, text \in {"", "Mi"} :
          fileInputOnchange(data, confirmed, text)

SpecImp == Init /\ [][NextImp]_vars

\* The export of a backup file and its import later on, the items, the
\* categories and the tree changing in between.
NextExport ==
    \/ btnAddRoot("A")
    \/ btnAddRoom("A", "K")
    \/ btnAddStorage("A", "K", "P")
    \/ \E loc \in {EmptyLoc, [house |-> "A", room |-> "K", storage |-> "P"]},
          opened \in {Unchecked, [Unchecked EXCEPT !.checked = TRUE]} :
          addItemSubmit("Milk", "111", "Food", 1, loc, opened)
    \/ \E n \in 1..Len(items) : updateQuantity(n, -1)
    \/ btnSettingsAddCat("Snack")
    \/ btnExport
    \/ fileInputDownload

SpecExport == Init /\ [][NextExport]_vars

\* Every handler that writes to the storage, over a small tree, one kind of
\* item and one backup document.
NextSave ==
    \/ btnAddRoot("A")
    \/ locationStructure = EmptyObject /\ btnAddHouse("A")
    \/ btnAddRoom("A", "K")
    \/ \E st \in StorageNames : btnAddStorage("A", "K", st)
    \/ \E node \in TreeNodes(locationStructure) :
          node.type = "storage" /\ renameLocation(node, "Q")
    \/ \E node \in TreeNodes(locationStructure) : deleteLocation(node)
    \/ \E loc \in {EmptyLoc, [house |-> "A", room |-> "K", storage |-> "P"]} :
          addItemSubmit("Milk", "111", "Food", 1, loc, Unchecked) /\ Len(items') <= 1
    \/ \E n \in 1..Len(items) :
          editItemSubmit(n, editCategoryDefault(categories, items[n]), 0, EmptyLoc,
                         shownOpened(items[n]))
    \/ \E n \in 1..Len(items) : btnDelete(n)
    \/ \E n \in 1..Len(items), delta \in {-1, 1} : updateQuantity(n, delta)
    \/ navSettings
    \/ "Snack" \notin Elems(categories) /\ btnAddCat("Snack")
    \/ btnSettingsAddCat("Snack")
    \/ editCatBtn("Food", "Snack")
    \/ delCatBtn("Food")
    \/ performUndo
    \/ fileInputOnchange([items |-> <<>>, categories |-> << "Food" >>,
                          locationStructure |->
                                put(EmptyObject, "A", put(EmptyObject, "K", << "Q", "P" >>)),
                          exportedAt |-> "2026-01-01"],
                         TRUE, "")

SpecSave == Init /\ [][NextSave]_vars

\* The handlers that change a quantity, an item, a category or the tree and
\* the undo, the storage taking their writes at times and refusing them at others.
NextFull ==
    \/ btnAddRoot("A")
    \/ btnAddRoom("A", "K")
    \/ btnAddStorage("A", "K", "P")
    \/ addItemSubmit("Milk", "111", "Food", 1, EmptyLoc, Unchecked) /\ Len(items') <= 1
    \/ \E n \in 1..Len(items) :
          editItemSubmit(n, editCategoryDefault(categories, items[n]), 0, EmptyLoc,
                         shownOpened(items[n]))
    \/ \E n \in 1..Len(items), delta \in {-1, 1} : updateQuantity(n, delta)
    \/ \E node \in TreeNodes(locationStructure) : deleteLocation(node)
    \/ navSettings
    \/ editCatBtn("Food", "Snack")
    \/ delCatBtn("Food")
    \/ performUndo
    \/ \E full \in BOOLEAN : storageQuota(full)

SpecFull == Init /\ [][NextFull]_vars

\* Quantities that reach 0 and deletes of tree nodes, some refused, with
\* undo records pending.
NextZero ==
    \/ btnAddRoot("A")
    \/ btnAddRoom("A", "K")
    \/ \E s \in StorageNames : btnAddStorage("A", "K", s)
    \/ \E loc \in FormLocations(locationStructure) :
          addItemSubmit("Milk", "111", "Food", 1, loc, Unchecked) /\ Len(items') <= 2
    \/ \E n \in 1..Len(items), delta \in Deltas : updateQuantity(n, delta)
    \/ \E node \in TreeNodes(locationStructure) : deleteLocation(node)
    \/ performUndo

SpecZero == Init /\ [][NextZero]_vars

\* Scanning: sessions for the three targets, over a small tree and its filters.
NextScan ==
    \/ btnAddRoot("A")
    \/ btnAddRoom("A", "K")
    \/ btnAddStorage("A", "K", "P")
    \/ addItemSubmit("Milk", "111", "Food", 1, [house |-> "A", room |-> "K", storage |-> "P"],
                     Unchecked)
    \/ \E key \in {"house", "room"}, value \in {"", "A", "K"} : bindFilterChange(key, value)
    \/ \E target \in ScanTargets, cameraOk \in BOOLEAN : startScanning(target, cameraOk)
    \/ \E text \in ScanTexts, second \in {"rejects", "throws"} : handleSmartScan(text, second)
    \/ stopSettled
    \/ btnCloseScanner

SpecScan == Init /\ [][NextScan]_vars


----------------------------------------------------------------------------
(* Properties *)

\* The ids of the items of the list.
Ids == {items[k].id : k \in 1..Len(items)}

\* The quantity of the item that id denotes (the first item of the list with it).
QtyOf(id) == items[find(items, id)].quantity

\* C1: for every item, of quantity q, and every delta with q + delta >= 0,
\* updateQuantity(id, delta) immediately followed by performUndo() leaves
\* items, categories and locationStructure as they were before the change.
C1_UpdateThenUndoRestores ==
    \A id \in Ids, delta \in Deltas :
        QtyOf(id) + delta >= 0 =>
            Core(performUndoR(updateQuantityR(AppState, id, delta))) = Core(AppState)

\* performUndo has just run right after an updateQuantity that went through.
C1_Witness ==
    /\ lastOp.name = "performUndo"
    /\ lastOp.after = "record"
    /\ lastOp.kind = "updateQty"
    /\ items # <<>>

\* An item is a dependent of a node when it is located at the node or below it.
Dependent(item, node) ==
    IF node.type = "house" THEN item.location.house = node.name
    ELSE IF node.type = "room"
    THEN item.location.house = node.house /\ item.location.room = node.name
    ELSE /\ item.location.house = node.house
         /\ item.location.room = node.room
         /\ item.location.storage = node.name

\* How many times x occurs in the list s.
Count(s, x) == Cardinality({i \in 1..Len(s) : s[i] = x})

\* The tree `after` is the tree `before` less the node: a house or a room is
\* gone with its subtree, a storage list has lost one entry of that name, and
\* everything else is as it was.
Removed(before, after, node) ==
    IF node.type = "house"
    THEN after = [h \in (DOMAIN before) \ {node.name} |-> before[h]]
    ELSE IF node.type = "room"
    THEN /\ DOMAIN after = DOMAIN before
         /\ \A h \in (DOMAIN before) \ {node.house} : after[h] = before[h]
         /\ after[node.house] =
                [r \in (DOMAIN before[node.house]) \ {node.name} |-> before[node.house][r]]
    ELSE /\ DOMAIN after = DOMAIN before
         /\ \A h \in DOMAIN before : DOMAIN after[h] = DOMAIN before[h]
         /\ \A hr \in AllRooms(before) :
                LET old == before[hr[1]][hr[2]]
                    new == after[hr[1]][hr[2]]
                IN  IF hr = <<node.house, node.room>>
                    THEN /\ Len(new) = Len(old) - 1
                         /\ \A x \in Elems(old) :
                                Count(new, x) = Count(old, x) - (IF x = node.name THEN 1 ELSE 0)
                    ELSE new = old

\* C2: deleteLocation on a node that has a dependent item is refused and leaves
\* locationStructure (and the items) unchanged; on a node without dependents,
\* so once they have all been deleted or moved elsewhere, it removes the node.
C2_DeleteRefusedWhileDependents ==
    \A node \in TreeNodes(locationStructure) :
        LET st == deleteLocationR(AppState, node)
        IN  IF \E k \in 1..Len(items) : Dependent(items[k], node)
            THEN st = AppState
            ELSE /\ Removed(locationStructure, st.locationStructure, node)
                 /\ st.items = items

\* A deleteLocation has just been refused: an item is located in the tree.
C2_Witness ==
    /\ lastOp.name = "deleteLocation"
    /\ ~lastOp.ok
    /\ \E k \in 1..Len(items), node \in TreeNodes(locationStructure) :
            Dependent(items[k], node)

\* C3: every item's non-empty house is a key of locationStructure, its
\* non-empty room a room of that house, and its non-empty storage an entry of
\* that room's storage list.
C3_LocationsExist ==
    \A k \in 1..Len(items) :
        LET l == items[k].location IN
        /\ l.house # "" => l.house \in DOMAIN locationStructure
        /\ l.room # "" =>
              /\ l.house \in DOMAIN locationStructure
              /\ l.room \in DOMAIN locationStructure[l.house]
        /\ l.storage # "" =>
              /\ l.house \in DOMAIN locationStructure
              /\ l.room \in DOMAIN locationStructure[l.house]
              /\ l.storage \in Elems(locationStructure[l.house][l.room])

\* C4: every item's quantity is an integer >= 0.
C4_QuantityNeverNegative ==
    \A k \in 1..Len(items) : items[k].quantity \in Nat

SecondActions ==
    {updateQuantityR(AppState, id, delta) :
        id \in Ids, delta \in {d \in Deltas : \A i \in Ids : QtyOf(i) + d >= 0}}
    \cup {delCatBtnR(AppState, cat) : cat \in {c \in Elems(categories) : inSettings}}
    \cup {deleteLocationR(AppState, node) :
            node \in {n \in TreeNodes(locationStructure) : ~blocked(items, n)}}

\* C6: when a second undoable action follows an undoable action, one
\* performUndo reverts the second action only, giving back the state the first
\* action left, and nothing is left to undo.
C6_UndoRevertsSecondOnly ==
    (lastOp.ok /\ lastOp.name \in Recording) =>
        \A st \in SecondActions :
            /\ Core(performUndoR(st)) = Core(AppState)
            /\ performUndoR(st).lastAction = Null

Unrecorded ==
    {"addItemSubmit", "editItemSubmit", "btnDelete", "btnAddRoot", "btnAddHouse", "btnAddRoom",
     "btnAddStorage", "renameLocation", "btnAddCat", "btnSettingsAddCat"}

\* C8: a mutating action of any kind supersedes the pending undo record: right
\* after an item add, edit or delete, a location add or rename or a category
\* add, performUndo writes nothing to items, categories or locationStructure.
C8_MutationSupersedesRecord ==
    (lastOp.ok /\ lastOp.name \in Unrecorded) =>
        Core(performUndoR(AppState)) = Core(AppState)

C10_DeleteCategoryReassigns ==
    inSettings =>
        \A cat \in Elems(categories) :
            LET st == delCatBtnR(AppState, cat)
            IN  /\ cat \notin Elems(st.categories)
                /\ Len(st.items) = Len(items)
                /\ \A k \in 1..Len(items) :
                      st.items[k] = IF items[k].category = cat
                                    THEN [items[k] EXCEPT !.category = "Uncategorized"]
                                    ELSE items[k]

\* C11: after deleting category C, an immediate undo puts C back in the
\* category list and the items of category C are again exactly those that had
\* it before the delete.
C11_DeleteCategoryThenUndo ==
    inSettings =>
        \A cat \in Elems(categories) :
            LET u == performUndoR(delCatBtnR(AppState, cat))
            IN  /\ cat \in Elems(u.categories)
                /\ \A k \in 1..Len(items) :
                      (u.items[k].category = cat) <=> (items[k].category = cat)

\* C12: after renaming category C to D, an immediate undo leaves the names of
\* the category list and the items as they were before the rename.
C12_RenameCategoryThenUndo ==
    inSettings =>
        \A cat \in Elems(categories) : \A newName \in CatNames \ {cat} :
            LET u == performUndoR(editCatBtnR(AppState, cat, newName))
            IN  /\ Elems(u.categories) = Elems(categories)
                /\ u.items = items

\* C17: the category list holds no name twice.
C17_CategoriesDistinct ==
    \A i, j \in 1..Len(categories) : categories[i] = categories[j] => i = j

\* The item with the name of the level of the node replaced by newName.
Relocated(item, node, newName) ==
    IF node.type = "house" THEN [item EXCEPT !.location.house = newName]
    ELSE IF node.type = "room" THEN [item EXCEPT !.location.room = newName]
    ELSE [item EXCEPT !.location.storage = newName]

\* C13: after renameLocation of a node from oldName to newName, every item
\* that referenced oldName at that position references newName instead, no
\* item references oldName at that position, and the other fields and the
\* other items are unchanged.
C13_RenameCascadesToItems ==
    \A node \in TreeNodes(locationStructure) :
        \A newName \in RenNamesOf(node.type) \ {node.name} :
            LET st == renameLocationR(AppState, node, newName)
            IN  /\ Len(st.items) = Len(items)
                /\ \A k \in 1..Len(items) :
                      /\ st.items[k] = IF Dependent(items[k], node)
                                       THEN Relocated(items[k], node, newName)
                                       ELSE items[k]
                      /\ ~Dependent(st.items[k], node)

\* A room has just been renamed; the item is located at a room of the tree
\* and the tree has a room in each of two houses.
C13_Witness ==
    /\ lastOp.name = "renameLocation"
    /\ lastOp.ok
    /\ lastOp.kind = "room"
    /\ Cardinality({hr[1] : hr \in AllRooms(locationStructure)}) = 2
    /\ \E k \in 1..Len(items) :
          <<items[k].location.house, items[k].location.room>> \in AllRooms(locationStructure)

\* The name is the name of a node at the position of `node`.
ExistsAtPosition(struct, node, name) ==
    IF node.type = "house" THEN name \in DOMAIN struct
    ELSE IF node.type = "room" THEN name \in DOMAIN struct[node.house]
    ELSE name \in Elems(struct[node.house][node.room])

\* C14: renameLocation to the name of another node at the same position is
\* rejected: locationStructure and items are unchanged.
C14_RenameConflictRejected ==
    \A node \in TreeNodes(locationStructure) :
        \A newName \in RenNamesOf(node.type) \ {node.name} :
            ExistsAtPosition(locationStructure, node, newName) =>
                LET st == renameLocationR(AppState, node, newName)
                IN  /\ st.locationStructure = locationStructure
                    /\ st.items = items

\* C15: adding a house, room or storage whose name is empty or is already at
\* that position changes nothing; adding a name that is not there twice gives
\* what adding it once gives, and a storage list then holds the name once.
C15_AddExistingChangesNothing ==
    /\ \A h \in HouseNames \cup {""} :
          /\ (h = "" \/ h \in DOMAIN locationStructure) =>
                /\ btnAddRootR(AppState, h) = AppState
                /\ btnAddHouseR(AppState, h) = AppState
          /\ btnAddRootR(btnAddRootR(AppState, h), h) = btnAddRootR(AppState, h)
    /\ \A house \in DOMAIN locationStructure : \A r \in RenRoomNames \cup {""} :
          /\ (r = "" \/ r \in DOMAIN locationStructure[house]) =>
                btnAddRoomR(AppState, house, r) = AppState
          /\ btnAddRoomR(btnAddRoomR(AppState, house, r), house, r)
                = btnAddRoomR(AppState, house, r)
    /\ \A hr \in AllRooms(locationStructure) : \A s \in StorageNames \cup {""} :
          LET once == btnAddStorageR(AppState, hr[1], hr[2], s)
          IN  /\ (s = "" \/ s \in Elems(locationStructure[hr[1]][hr[2]])) => once = AppState
              /\ btnAddStorageR(once, hr[1], hr[2], s) = once
              /\ (s # "" /\ s \notin Elems(locationStructure[hr[1]][hr[2]])) =>
                    Count(once.locationStructure[hr[1]][hr[2]], s) = 1

\* An add of a storage has just changed nothing: the tree has storages.
C15_Witness ==
    /\ lastOp.name = "btnAddStorage"
    /\ ~lastOp.ok
    /\ AllStorages(locationStructure) # {}

\* C16: the storage list of every room holds no name twice.
C16_StoragesDistinct ==
    \A hr \in AllRooms(locationStructure) :
        LET arr == locationStructure[hr[1]][hr[2]]
        IN  \A i, j \in 1..Len(arr) : arr[i] = arr[j] => i = j

\* C18: after any item creation or edit-item save, an item with isOpened =
\* false has openedDate = null and shelfLife = null, also when the save turned
\* isOpened off with the two fields still filled.
C18_UnopenedHasNoOpenedState ==
    \A k \in 1..Len(items) :
        ~items[k].isOpened => items[k].openedDate = "null" /\ items[k].shelfLife = "null"

\* An edit-item save has just turned isOpened off on an item.
C18_Witness ==
    /\ lastOp.name = "editItemSubmit"
    /\ lastOp.kind = "closed"
    /\ \E k \in 1..Len(items) : ~items[k].isOpened

\* The item is one the draft merges into: the same barcode when the draft has
\* one, the same name when it has none, and the same house, room and storage.
Matches(item, barcodeVal, nameVal, loc) ==
    /\ IF barcodeVal # "" THEN item.barcode = barcodeVal ELSE item.name = nameVal
    /\ item.location.house = loc.house
    /\ item.location.room = loc.room
    /\ item.location.storage = loc.storage

\* The texts of a name field that are empty or only whitespace.
Blank == {"", " "}

C20_EmptyNameRejected ==
    \A name \in Blank, barcode \in BarcodeInputs, quantity \in QtyInputs,
       loc \in FormLocations(locationStructure), opened \in OpenedInputs :
        addItemSubmitR(AppState, name, barcode, "", quantity, loc, now, opened) = AppState

\* An add with such a name has just been rejected while the list and the
\* persisted record hold an item.
C20_Witness ==
    /\ lastOp.name = "addItemSubmit"
    /\ ~lastOp.ok
    /\ items # <<>>
    /\ inventory_data = Core(AppState)

\* C21: in every reachable state the ids of the items are pairwise distinct,
\* also after several adds within the same clock millisecond.
C21_IdsDistinct ==
    \A j, k \in 1..Len(items) : j # k => items[j].id # items[k].id

\* The item has an opened-derived date: it is opened and both fields are set.
HasOpenedDerived(item) ==
    /\ item.isOpened
    /\ item.openedDate \notin {"null", ""}
    /\ item.shelfLife \notin {"null", ""}

\* The opened-derived date of an item: openedDate plus shelfLife months.
OpenedDerived(item) ==
    LET openD == newDate(item.openedDate)
    IN  setMonth(openD, getMonth(openD) + parseInt(item.shelfLife))

\* The candidate dates of the effective expiry of an item.
Candidates(item) ==
    (IF item.expiry # "" THEN {newDate(item.expiry)} ELSE {})
    \cup (IF HasOpenedDerived(item) THEN {OpenedDerived(item)} ELSE {})

\* C22: getEffectiveExpiry returns the earliest of the candidates (the expiry
\* if set, the opened-derived date if the item is opened and both fields are
\* set) and null when there is none; for an item that is not opened, also one
\* whose two fields are still set, the opened-derived date is no candidate.
C22_EffectiveExpiryIsEarliest ==
    \A k \in 1..Len(items) :
        \A item \in {items[k], [items[k] EXCEPT !.isOpened = FALSE]} :
            LET e == getEffectiveExpiry(item)
                C == Candidates(item)
            IN  /\ C = {} => e = <<>>
                /\ C # {} => /\ e # <<>>
                             /\ e[1] \in C
                             /\ \A c \in C : e[1] <= c
                /\ ~item.isOpened =>
                      e = IF item.expiry = "" THEN <<>> ELSE <<newDate(item.expiry)>>

\* An item has just been saved whose opened-derived date is earlier than its
\* expiry, and another whose expiry is the earlier one.
C22_Witness ==
    /\ lastOp.name \in {"addItemSubmit", "editItemSubmit"}
    /\ \E k \in 1..Len(items) :
          /\ HasOpenedDerived(items[k])
          /\ items[k].expiry # ""
          /\ OpenedDerived(items[k]) < newDate(items[k].expiry)
          /\ getEffectiveExpiry(items[k]) = <<OpenedDerived(items[k])>>
    /\ \E k \in 1..Len(items) :
          /\ HasOpenedDerived(items[k])
          /\ items[k].expiry # ""
          /\ newDate(items[k].expiry) < OpenedDerived(items[k])

\* The number of days of the month m of the year y.
DaysInMonth(y, m) ==
    DayOf(IF m = 12 THEN y + 1 ELSE y, IF m = 12 THEN 1 ELSE m + 1, 1) - DayOf(y, m, 1)

\* C23: the opened-derived date keeps the day of the month of openedDate, or
\* is the last day of the target month when that month is shorter; it is
\* never a day of the following month.
C23_MonthAdditionClamps ==
    \A k \in 1..Len(items) :
        HasOpenedDerived(items[k]) =>
            LET o == DateFields(items[k].openedDate)
                target == o[2] - 1 + parseInt(items[k].shelfLife)
                y == o[1] + (target \div 12)
                m == (target % 12) + 1
                last == DaysInMonth(y, m)
            IN  toISODate(OpenedDerived(items[k]))
                    = <<y, m, IF o[3] <= last THEN o[3] ELSE last>>

\* The status of the claim, threshold 30.
Status(daysUntil) ==
    IF daysUntil < 0 THEN "expired" ELSE IF daysUntil <= 30 THEN "soon" ELSE "ok"

\* C24: an item is expired when daysUntil < 0, soon when 0 <= daysUntil <= 30
\* and ok above 30, and the 'soon' and 'expired' filters and the tag of the
\* card all follow this classification.
C24_StatusSameEverywhere ==
    \A k \in 1..Len(items) :
        getEffectiveExpiry(items[k]) # <<>> =>
            LET s == Status(getDaysUntil(getEffectiveExpiry(items[k])[1], now))
            IN  /\ expiryTag(items[k], now) = s
                /\ statusMatch(items[k], [NoFilters EXCEPT !.soon = TRUE], now) <=> s = "soon"
                /\ statusMatch(items[k], [NoFilters EXCEPT !.expired = TRUE], now)
                      <=> s = "expired"

\* The house, room and storage of the item are those of the context, the room
\* and the storage where the context has them.
InContext(item, h, r, s) ==
    /\ item.location.house = h
    /\ r = "" \/ item.location.room = r
    /\ s = "" \/ item.location.storage = s

\* C25: with a location context (house, and room and storage or none), an item
\* is shown exactly when its house is the context's and its room and storage
\* are the context's where the context has them, the other filters letting it
\* through.
C25_LocationContextMatch ==
    \A k \in 1..Len(items), h \in HouseNames, r \in {""} \cup RenRoomNames,
       s \in {""} \cup StorageNames :
        LET ctx == [filters EXCEPT !.house = h, !.room = r, !.storage = s]
            none == [filters EXCEPT !.house = "", !.room = "", !.storage = ""]
        IN  shown(items[k], ctx, searchInput, now)
                <=> InContext(items[k], h, r, s) /\ shown(items[k], none, searchInput, now)

\* The room select has just been set: the context is house A, room K, the
\* item at A/K/P is shown and the item at A/L is hidden.
C25_Witness ==
    /\ lastOp.name = "bindFilter"
    /\ filters.house = "A" /\ filters.room = "K" /\ filters.storage = ""
    /\ \E k \in 1..Len(items) :
          /\ items[k].location = [house |-> "A", room |-> "K", storage |-> "P"]
          /\ shown(items[k], filters, searchInput, now)
    /\ \E k \in 1..Len(items) :
          /\ items[k].location = [house |-> "A", room |-> "L", storage |-> ""]
          /\ ~shown(items[k], filters, searchInput, now)

\* C26: with a search term, an item passes the text filter exactly when the
\* term is, letter case apart, a part of its name or a part of its barcode.
C26_SearchAnyCase ==
    searchInput # "" =>
        \A k \in 1..Len(items) :
            LET term == toLowerCase(Chars(searchInput))
            IN  textMatch(items[k], searchInput)
                    <=> \/ includes(toLowerCase(Chars(items[k].name)), term)
                        \/ includes(toLowerCase(Chars(items[k].barcode)), term)

\* The cards of the list as the state has it, on the given engine.
Cards(engine) == renderInventory(items, filters, sortBy, searchInput, now, engine)

\* C27: an item with quantity <= 0 has no card while showZero is false and has
\* one, the other filters letting it through, while showZero is true; taking
\* an item from 1 to 0 hides it and leaves it in the list of items.
C27_ZeroQuantityHidden ==
    /\ \A engine \in Engines, k \in 1..Len(items) :
          items[k].quantity <= 0 =>
              IF filters.showZero
              THEN items[k] \in Elems(Cards(engine))
                      <=> /\ textMatch(items[k], searchInput)
                          /\ locationMatch(items[k], filters)
                          /\ categoryMatch(items[k], filters)
                          /\ statusMatch(items[k], filters, now)
              ELSE items[k] \notin Elems(Cards(engine))
    /\ \A engine \in Engines, id \in Ids :
          QtyOf(id) = 1 =>
              LET st == updateQuantityR(AppState, id, -1)
                  k == find(items, id)
              IN  /\ st.items = [items EXCEPT ![k].quantity = 0]
                  /\ st.items[k] \notin
                        Elems(renderInventory(st.items, [filters EXCEPT !.showZero = FALSE],
                                              sortBy, searchInput, now, engine))

\* An item has just been taken to 0: with showZero false it is in the list of
\* items and has no card.
C27_Witness ==
    /\ lastOp.name = "updateQuantity"
    /\ lastOp.ok
    /\ ~filters.showZero
    /\ \E k \in 1..Len(items) :
          /\ items[k].quantity = 0
          /\ lastAction = [type |-> "updateQty", id |-> items[k].id, oldVal |-> 1, newVal |-> 0]
          /\ \A engine \in Engines : items[k] \notin Elems(Cards(engine))

\* C28: under the location sort the cards are in ascending order of house +
\* room + storage, and every item without a location comes after every item
\* that has one.
C28_LocationSort ==
    sortBy = "location" =>
        \A engine \in Engines :
            LET list == Cards(engine)
            IN  \A i, j \in 1..Len(list) :
                    i < j =>
                        /\ localeCompare(locationText(list[i].location),
                                         locationText(list[j].location)) <= 0
                        /\ ~(list[i].location = EmptyLoc /\ list[j].location # EmptyLoc)

\* The place of an item in the list of items.
PlaceOf(item) == CHOOSE k \in 1..Len(items) : items[k] = item

\* C29: under the expiry sort the cards are in ascending order of effective
\* expiry, every item without one comes after every item that has one, and
\* items that tie keep the order of the list of items.
C29_ExpirySortStable ==
    sortBy = "expiry" =>
        \A engine \in Engines :
            LET list == Cards(engine)
            IN  \A i, j \in 1..Len(list) :
                    i < j =>
                        LET da == getEffectiveExpiry(list[i])
                            db == getEffectiveExpiry(list[j])
                        IN  /\ da # <<>> /\ db # <<>> => da[1] <= db[1]
                            /\ ~(da = <<>> /\ db # <<>>)
                            /\ da = db => PlaceOf(list[i]) < PlaceOf(list[j])

\* The two trees have the same houses and rooms, and each room the same
\* storages.
SameTree(a, b) ==
    /\ DOMAIN a = DOMAIN b
    /\ \A h \in DOMAIN a :
          /\ DOMAIN a[h] = DOMAIN b[h]
          /\ \A r \in DOMAIN a[h] :
                /\ Len(a[h][r]) = Len(b[h][r])
                /\ \A s \in Elems(a[h][r]) \cup Elems(b[h][r]) :
                      Count(a[h][r], s) = Count(b[h][r], s)

\* C30: importing a document that lacks items, categories or
\* locationStructure changes neither the state in memory nor the stored
\* record; a confirmed import of a complete document leaves exactly the items,
\* the categories and the tree of the document, in memory and stored, and no
\* undo record.
C30_ImportReplacesOrRejects ==
    \A data \in Docs, confirmed \in BOOLEAN :
        LET st == fileInputOnchangeR(AppState, data, confirmed)
        IN  IF \E k \in {"items", "categories", "locationStructure"} : k \notin DOMAIN data
            THEN st = AppState
            ELSE confirmed =>
                    /\ st.items = data.items
                    /\ st.categories = data.categories
                    /\ SameTree(st.locationStructure, data.locationStructure)
                    /\ st.inventory_data
                          = Snapshot(data.items, data.categories, data.locationStructure)
                    /\ st.lastAction = Null

\* A complete document has just been imported: the state is the document's,
\* and the stored record too.
C30_Witness ==
    /\ lastOp.name = "fileInput"
    /\ lastOp.ok
    /\ items = <<DocItem>>
    /\ categories = << "Snack" >>
    /\ SameTree(locationStructure, DocTree)
    /\ inventory_data = Snapshot(<<DocItem>>, << "Snack" >>, DocTree)

\* C31: when the backup file written by exportData is imported, the items,
\* the categories and the tree are again those of the moment of the export,
\* whatever was changed in between.
C31_ExportImportRoundTrip ==
    lastOp.name = "fileInput" /\ lastOp.ok /\ lastOp.after = "download" =>
        /\ items = download.of.items
        /\ categories = download.of.categories
        /\ locationStructure = download.of.locationStructure

\* A backup holding an item that was never opened, a changed category list
\* and a tree with a storage has just been imported.
C31_Witness ==
    /\ lastOp.name = "fileInput" /\ lastOp.ok /\ lastOp.after = "download"
    /\ \E k \in 1..Len(items) : items[k].openedDate = "null"
    /\ "Snack" \in Elems(categories)
    /\ AllStorages(locationStructure) # {}

\* The scanned texts that are paths of exactly three parts, with their parts.
ThreeParts ==
    [t \in {"A > K > P", "A > K > "} |->
        [house |-> "A", room |-> "K", storage |-> IF t = "A > K > P" THEN "P" ELSE ""]]

\* C32: a scan is taken for a location only when its text is a path of
\* exactly three parts; in a scan for the location fields of the form every
\* other text is answered as invalid; and whatever the text and the target,
\* the items, the categories and the tree stay as they are.
C32_ScanNeverMutates ==
    \A target \in ScanTargets, text \in ScanTexts :
        LET res == handleSmartScanR(AppState, filters, searchInput, target, text)
        IN  /\ res.st.items = items
            /\ res.st.categories = categories
            /\ res.st.locationStructure = locationStructure
            /\ res.report = "location" => text \in DOMAIN ThreeParts
            /\ target = "loc-form" /\ text \notin DOMAIN ThreeParts => res.report = "invalid"

\* A path of four parts has just been scanned for the location fields of the
\* form, over a tree and an item, and was answered as invalid.
C32_Witness ==
    /\ lastOp.name = "handleSmartScan"
    /\ lastOp.after = "A > K > P > Q"
    /\ lastOp.kind = "invalid"
    /\ scanner.scannerTarget = "loc-form"
    /\ items # <<>>
    /\ AllStorages(locationStructure) # {}

\* C33: a smart scan of a path of three parts sets the house, room and
\* storage filters to the parts; a smart scan of any other text, a path of
\* two or four parts included, makes the text the search text and leaves the
\* location filters as they are.
C33_SmartScanSearchesOtherTexts ==
    /\ lastOp.name = "handleSmartScan" /\ lastOp.ok /\ scanner.scannerTarget = "smart-scan" =>
          IF lastOp.after \in DOMAIN ThreeParts
          THEN /\ filters.house = ThreeParts[lastOp.after].house
               /\ filters.room = ThreeParts[lastOp.after].room
               /\ filters.storage = ThreeParts[lastOp.after].storage
          ELSE searchInput = lastOp.after
    /\ \A text \in ScanTexts \ DOMAIN ThreeParts :
          handleSmartScanR(AppState, filters, searchInput, "smart-scan", text).filters = filters

\* C40: a scanning session hands at most one text to handleSmartScan, also
\* when the decode callback fires again before the stop has settled; and a
\* startScanning during a session changes neither the target nor the session.
C40_OneResultPerSession ==
    /\ scanner.handled <= 1
    /\ scanner.isScanning =>
          \A target \in ScanTargets, cameraOk \in BOOLEAN :
              startScanningR(scanner, target, cameraOk) = scanner

\* C36: once syncCategories has run (the settings view was opened), the
\* category of every item that has one, "Uncategorized" included, is in the
\* list of categories.
C36_SyncedCategoriesListed ==
    lastOp.name = "navSettings" =>
        \A k \in 1..Len(items) :
            items[k].category # "" => items[k].category \in Elems(categories)

\* C37: an updateQuantity that would go below 0, an updateQuantity for an id
\* no item has, and a deleteLocation of a node that has items at or below it
\* leave the items, the tree and the undo record as they are, so that a
\* performUndo after them does what it would have done before them.
C37_RejectedKeepsUndoRecord ==
    /\ \A id \in Ids \cup {"9"}, delta \in Deltas :
          (id \notin Ids \/ QtyOf(id) + delta < 0) =>
              LET st == updateQuantityR(AppState, id, delta)
              IN  /\ st.items = items
                  /\ st.locationStructure = locationStructure
                  /\ st.lastAction = lastAction
                  /\ performUndoR(st) = performUndoR(AppState)
    /\ \A node \in TreeNodes(locationStructure) :
          (\E k \in 1..Len(items) : Dependent(items[k], node)) =>
              LET st == deleteLocationR(AppState, node)
              IN  /\ st.items = items
                  /\ st.locationStructure = locationStructure
                  /\ st.lastAction = lastAction
                  /\ performUndoR(st) = performUndoR(AppState)

\* The delete of a room that holds an item has just been refused while the
\* record of a quantity change is pending.
C37_Witness ==
    /\ lastOp.name = "deleteLocation"
    /\ ~lastOp.ok
    /\ lastOp.kind = "room"
    /\ lastAction # Null
    /\ lastAction.type = "updateQty"

\* C38: an item of quantity 0, which the list hides, still keeps the house,
\* the room and the storage it is in from being deleted.
C38_ZeroQuantityBlocksDelete ==
    \A node \in TreeNodes(locationStructure) :
        (\E k \in 1..Len(items) : items[k].quantity = 0 /\ Dependent(items[k], node)) =>
            /\ deleteLocationR(AppState, node) = AppState
            /\ \E k \in 1..Len(items) :
                  /\ Dependent(items[k], node)
                  /\ \A engine \in Engines :
                        items[k] \notin Elems(renderInventory(items, NoFilters, sortBy,
                                                              "", now, engine))

\* The delete of a storage has just been refused, every item of the list
\* being of quantity 0.
C38_Witness ==
    /\ lastOp.name = "deleteLocation"
    /\ ~lastOp.ok
    /\ lastOp.kind = "storage"
    /\ items # <<>>
    /\ \A k \in 1..Len(items) : items[k].quantity = 0

\* The handlers that write to items, categories or locationStructure.
Mutating ==
    {"addItemSubmit", "editItemSubmit", "btnDelete", "updateQuantity", "btnAddCat",
     "btnSettingsAddCat", "editCatBtn", "delCatBtn", "navSettings", "btnAddRoot",
     "btnAddHouse", "btnAddRoom", "btnAddStorage", "renameLocation", "deleteLocation",
     "performUndo", "fileInput"}

\* C34: when a handler that changes the items, the categories or the tree
\* has gone through (its write to the storage included), the stored record
\* holds the items and the categories of the memory and a tree with the same
\* houses, rooms and storages.
C34_StoredEqualsMemory ==
    lastOp.name \in Mutating /\ lastOp.ok /\ ~storageFull =>
        /\ inventory_data # NoData
        /\ inventory_data.items = items
        /\ inventory_data.categories = categories
        /\ SameTree(inventory_data.locationStructure, locationStructure)

\* A storage has just been added before another of its room: the stored list
\* is in the order of the additions, the list in memory is sorted.
C34_Witness ==
    /\ lastOp.name = "btnAddStorage"
    /\ lastOp.ok
    /\ inventory_data # NoData
    /\ inventory_data.locationStructure # locationStructure
    /\ SameTree(inventory_data.locationStructure, locationStructure)

\* Two states hold the same items, the same categories and a tree with the
\* same houses, rooms and storages.
SameRecords(a, b) ==
    /\ a.items = b.items
    /\ a.categories = b.categories
    /\ SameTree(a.locationStructure, b.locationStructure)

\* A handler went through with a refused write as it does with an accepted
\* one, as far as the items, the categories and the tree go, and the refused
\* write left the stored record as it was.
Stands(full, free) ==
    /\ SameRecords(full, free)
    /\ full.inventory_data = inventory_data

\* C35: when the write to the storage is refused during updateQuantity,
\* deleteLocation, the delete or the rename of a category, the edit of an item
\* or the undo, the items, the categories and the tree are left as the
\* handler leaves them when the write is accepted: the change is not taken back.
C35_RefusedWriteKeepsChange ==
    LET full == [AppState EXCEPT !.storageFull = TRUE]
        free == [AppState EXCEPT !.storageFull = FALSE]
    IN  /\ \A id \in Ids, delta \in {-1, 1} :
              Stands(updateQuantityR(full, id, delta), updateQuantityR(free, id, delta))
        /\ \A node \in TreeNodes(locationStructure) :
              Stands(deleteLocationR(full, node), deleteLocationR(free, node))
        /\ \A cat \in Elems(categories) :
              /\ Stands(delCatBtnR(full, cat), delCatBtnR(free, cat))
              /\ Stands(editCatBtnR(full, cat, "Snack"), editCatBtnR(free, cat, "Snack"))
        /\ \A id \in Ids, quantity \in {0, 1} :
              Stands(editItemSubmitR(full, id, "Food", quantity, EmptyLoc, Unchecked),
                     editItemSubmitR(free, id, "Food", quantity, EmptyLoc, Unchecked))
        /\ Stands(performUndoR(full), performUndoR(free))

\* A storage of the tree has just been deleted while the storage refused the
\* write: the tree in memory is without it, the stored tree still has it.
C35_Witness ==
    /\ lastOp.name = "deleteLocation"
    /\ lastOp.ok
    /\ storageFull
    /\ inventory_data # NoData
    /\ AllStorages(locationStructure) = {}
    /\ AllStorages(inventory_data.locationStructure) # {}

\* C39: the house, room and storage that the list is filtered by are the
\* ones the filter selects show.
C39_FiltersAreShown ==
    /\ filters.house = filterInputs.house
    /\ filters.room = filterInputs.room
    /\ filters.storage = filterInputs.storage

====
